---- MODULE Spec2Model ----
(***************************************************************************)
(* disk-viz: the concurrency limiter, the directory walker, the            *)
(* snapshotter (scanner.ts) and the scan coordinator (server.ts).          *)
(*                                                                         *)
(* Three specifications share this module:                                 *)
(*   SpecSnap  snapshot() applied to working trees built by insertions     *)
(*   SpecLim   acquireSlot/releaseSlot/withSlot under arbitrary callers    *)
(*   Spec      the coordinator driving streaming scans over a fixture      *)
(***************************************************************************)
EXTENDS Integers, Sequences, FiniteSets, TLC

\* ---------------------------------------------------------------- constants
\* scanner.ts:15..20, server.ts:7
DEFAULT_MAX_DEPTH == 8
CHILD_LIMIT_DEPTH == 2
MAX_CHILDREN == 30
MAX_CONCURRENT == 64
MAX_DEPTH == 8
\* hooks/useTreemapLayout.ts:8
MAX_RECTS == 500

\* ------------------------------------------------------------------- bounds
\* SpecSnap: entries already pushed into the wide directory, and the number
\* of further mutations of the working tree.
PreLoad == 30
MaxInserts == 3

\* SpecView: directories of the tree sent to the frontend, and calls of
\* removeNode made in all.
ViewDirs == 17
MaxRemovals == 1

\* SpecLim: calls of withSlot made in all.
MaxCalls == 68
\* Spec: /api/scan requests handled in all, and the directories nested
\* below /b in the fixture.  SpecGone: clients that go away in all.
MaxRequests == 2
ChainDirs == 9
MaxDisconnects == 1
\* SpecHeap: snapshots taken in all, and entries pushed after Init.
\* SpecOne: the files of the directory /w/x/y of the fixture.
WideFiles == 32
MaxHeld == 2
MaxPushes == 1

VARIABLES
  active,    \* scanner.ts:21  slots taken
  queue,     \* scanner.ts:22  resolvers of the callers waiting in acquireSlot
  arrivals,  \* SpecLim: callers of withSlot so far; a caller is its number
  running,   \* SpecLim: callers inside fn(), their call issued, not returned
  grants,    \* SpecLim: how many callers were granted a slot so far
  lastGrant, \* SpecLim: the caller granted a slot last
  scans,     \* every ActiveScan record made so far (server.ts:14..21) with the
             \* locals of its scanDirectoryStreaming call (scanner.ts:154..163)
  activeScan,\* server.ts:23  index into scans, 0 for null
  ops,       \* filesystem calls of the walkers that have not returned yet
  sseListeners, \* server.ts:30  the subscribers whose listener is registered
  subs,      \* what each /api/scan response stream was sent
  requests,  \* /api/scan requests handled so far
  oneShot,   \* the TreeNode a scanDirectory call made in the last step
             \* resolved to, the maxDepth it was called with, and the
             \* paths whose filesystem calls failed during it
  work,      \* SpecSnap: the working tree (root TreeNode, mutated in place)
  snapSrc,   \* SpecSnap: the working tree the snapshot was taken from
  snap,      \* SpecSnap: the snapshot handed to onProgress
  inserts,   \* SpecSnap: mutations of the working tree since Init
  heap,      \* SpecHeap: the TreeNode objects, by address
  held,      \* SpecHeap: addresses of the snapshots handed to consumers
  data,      \* SpecView: address of the tree the frontend holds, 0 for null
  pruned,    \* SpecView: the tree useTreemapLayout handed to d3's hierarchy
  removed    \* SpecView: the paths removeNode was called with so far

limVars == <<active, queue>>
callerVars == <<arrivals, running, grants, lastGrant>>
snapVars == <<work, snapSrc, snap, inserts, heap, held,
             data, pruned, removed>>
scanVars == <<scans, activeScan, ops, sseListeners, subs, requests, oneShot>>
vars == <<active, queue, arrivals, running, grants, lastGrant,
          scans, activeScan, ops, sseListeners, subs, requests, oneShot,
          work, snapSrc, snap, inserts, heap, held, data, pruned, removed>>

\* ------------------------------------------------------------------ limiter
\* acquireSlot with the capacity test off by one (<= for <).
acquireSlot_OffByOne(a, q, who) ==
  IF a <= MAX_CONCURRENT
  THEN [active |-> a + 1, queue |-> q, granted |-> TRUE]
  ELSE [active |-> a, queue |-> Append(q, who), granted |-> FALSE]

\* acquireSlot (scanner.ts:24..30) called by who, on the limiter state a, q:
\* the new state, and whether the returned promise is already resolved.
acquireSlot(a, q, who) ==
  IF a < MAX_CONCURRENT
  THEN [active |-> a + 1, queue |-> q, granted |-> TRUE]
  ELSE [active |-> a, queue |-> Append(q, who), granted |-> FALSE]

\* releaseSlot resuming the caller that queued last (pop for shift).
releaseSlot_Pop(a, q) ==
  IF q # <<>>
  THEN [active |-> a, queue |-> SubSeq(q, 1, Len(q) - 1),
        resumed |-> <<q[Len(q)]>>]
  ELSE [active |-> a - 1, queue |-> q, resumed |-> <<>>]

\* releaseSlot (scanner.ts:32..39): the new state, and the caller whose
\* resolver was shifted off the queue and called, if any.
releaseSlot(a, q) ==
  IF q # <<>>
  THEN [active |-> a, queue |-> Tail(q), resumed |-> <<Head(q)>>]
  ELSE [active |-> a - 1, queue |-> q, resumed |-> <<>>]

\* ------------------------------------------------------------------ TreeNode
\* TreeNode (scanner.ts:5..13).  path is the sequence of path components;
\* hasChildren distinguishes an absent children list from an empty one;
\* count is the N of the aggregate's name "(N smaller items)", 0 otherwise.
DirNode(path) ==
  [name |-> IF Len(path) = 0 THEN "/" ELSE path[Len(path)], path |-> path,
   size |-> 0, type |-> "directory", hasChildren |-> FALSE,
   children |-> <<>>, truncated |-> FALSE, count |-> 0]

\* A file node that leaves the stat size out.
FileNode_NoSize(path, size) ==
  [name |-> path[Len(path)], path |-> path,
   size |-> 0, type |-> "file", hasChildren |-> FALSE,
   children |-> <<>>, truncated |-> FALSE, count |-> 0]

FileNode(path, size) ==
  [name |-> path[Len(path)], path |-> path,
   size |-> size, type |-> "file", hasChildren |-> FALSE,
   children |-> <<>>, truncated |-> FALSE, count |-> 0]

\* The aggregate pushed without the size of what it stands for.
OtherNode_Weightless(path, n, size) ==
  [name |-> "smaller items", path |-> Append(path, "__other__"),
   size |-> 0, type |-> "file", hasChildren |-> FALSE,
   children |-> <<>>, truncated |-> FALSE, count |-> n]

\* The aggregate pushed by applyChildLimits / scanDirectory.
OtherNode(path, n, size) ==
  [name |-> "smaller items", path |-> Append(path, "__other__"),
   size |-> size, type |-> "file", hasChildren |-> FALSE,
   children |-> <<>>, truncated |-> FALSE, count |-> n]

NoNode == [name |-> "", path |-> <<"?">>, size |-> 0, type |-> "none",
           hasChildren |-> FALSE, children |-> <<>>, truncated |-> FALSE,
           count |-> 0]

\* No scanDirectory call was made in the last step.
NoCall == [tree |-> NoNode, maxDepth |-> 0, failing |-> {}]

\* The values the variables of the limiter, of its callers in SpecLim and of
\* the coordinator have when the module is loaded.
LimIdle == active = 0 /\ queue = <<>>
CallersIdle == arrivals = 0 /\ running = 0 /\ grants = 0 /\ lastGrant = 0
ScanIdle == /\ scans = <<>> /\ activeScan = 0 /\ ops = {}
            /\ sseListeners = {} /\ subs = <<>> /\ requests = 0
            /\ oneShot = NoCall

RECURSIVE SumUpTo(_, _)
SumUpTo(cs, n) == IF n = 0 THEN 0 ELSE cs[n].size + SumUpTo(cs, n - 1)

\* children.reduce((s, c) => s + c.size, 0)
SumSizes(cs) == SumUpTo(cs, Len(cs))

\* children.sort((a, b) => b.size - a.size).  Array.prototype.sort is
\* stable: an element comes before another when it is larger, or as large and
\* earlier in the list; rank[i] is the number of elements that come before
\* element i, which the sort places at rank[i] + 1.
SortBySizeDesc(cs) ==
  LET n == Len(cs)
      rank == [i \in 1..n |->
                 Cardinality({j \in 1..n :
                    \/ cs[j].size > cs[i].size
                    \/ cs[j].size = cs[i].size /\ j < i})] \o <<>>
  IN [r \in 1..n |-> cs[CHOOSE i \in 1..n : rank[i] = r - 1]] \o <<>>

RECURSIVE JsonClone(_)
\* JSON.parse(JSON.stringify(root)): a fresh node per node, every defined
\* field copied, the children list rebuilt element by element.
JsonClone(node) ==
  [name |-> node.name, path |-> node.path, size |-> node.size,
   type |-> node.type, hasChildren |-> node.hasChildren,
   children |-> [i \in 1..Len(node.children) |->
                   JsonClone(node.children[i])] \o <<>>,
   truncated |-> node.truncated, count |-> node.count]

RECURSIVE recalcSizes(_)
\* recalcSizes without the loop over the children: the children are sorted
\* and summed with the sizes they happen to hold.
recalcSizes_NoRecursion(node) ==
  IF ~node.hasChildren \/ Len(node.children) = 0 THEN node
  ELSE LET sorted == SortBySizeDesc(node.children)
       IN [node EXCEPT !.children = sorted, !.size = SumSizes(sorted)]

\* scanner.ts:269..276
recalcSizes(node) ==
  IF ~node.hasChildren \/ Len(node.children) = 0 THEN node
  ELSE LET kids == [i \in 1..Len(node.children) |->
                      recalcSizes(node.children[i])] \o <<>>
           sorted == SortBySizeDesc(kids)
       IN [node EXCEPT !.children = sorted, !.size = SumSizes(sorted)]

RECURSIVE applyChildLimits(_, _)
\* applyChildLimits with the depth test off by one (> for >=).
applyChildLimits_OffByOne(node, depth) ==
  IF ~node.hasChildren \/ Len(node.children) = 0 THEN node
  ELSE LET kids == [i \in 1..Len(node.children) |->
                      applyChildLimits(node.children[i], depth + 1)] \o <<>>
       IN IF depth > CHILD_LIMIT_DEPTH /\ Len(kids) > MAX_CHILDREN
          THEN LET kept == SubSeq(kids, 1, MAX_CHILDREN)
                   droppedSize ==
                     SumSizes(SubSeq(kids, MAX_CHILDREN + 1, Len(kids)))
               IN [node EXCEPT !.children =
                     IF droppedSize > 0
                     THEN Append(kept, OtherNode(node.path,
                                   Len(kids) - MAX_CHILDREN, droppedSize))
                     ELSE kept]
          ELSE [node EXCEPT !.children = kids]

\* scanner.ts:279..299
applyChildLimits(node, depth) ==
  IF ~node.hasChildren \/ Len(node.children) = 0 THEN node
  ELSE LET kids == [i \in 1..Len(node.children) |->
                      applyChildLimits(node.children[i], depth + 1)] \o <<>>
       IN IF depth >= CHILD_LIMIT_DEPTH /\ Len(kids) > MAX_CHILDREN
          THEN LET kept == SubSeq(kids, 1, MAX_CHILDREN)
                   droppedSize ==
                     SumSizes(SubSeq(kids, MAX_CHILDREN + 1, Len(kids)))
               IN [node EXCEPT !.children =
                     IF droppedSize > 0
                     THEN Append(kept, OtherNode(node.path,
                                   Len(kids) - MAX_CHILDREN, droppedSize))
                     ELSE kept]
          ELSE [node EXCEPT !.children = kids]

\* snapshot without the second recalcSizes.
snapshot_NoResort(root) ==
  applyChildLimits(recalcSizes(JsonClone(root)), 0)

\* scanner.ts:184..190
snapshot(root) ==
  recalcSizes(applyChildLimits(recalcSizes(JsonClone(root)), 0))

\* ------------------------------------------------- in-place tree mutation
RECURSIVE NodeAt(_, _, _)
\* The node with path p under node (NoNode when there is none); k is the
\* number of components of p already matched.
NodeAt(node, p, k) ==
  IF k = Len(p) THEN node
  ELSE LET hits == {i \in 1..Len(node.children) :
                      node.children[i].path = SubSeq(p, 1, k + 1)}
       IN IF hits = {} THEN NoNode
          ELSE NodeAt(node.children[CHOOSE i \in hits : TRUE], p, k + 1)

RECURSIVE ReplaceAt(_, _, _, _)
\* The tree with the node at path p replaced by new.
ReplaceAt(node, p, k, new) ==
  IF k = Len(p) THEN new
  ELSE [node EXCEPT !.children =
          [i \in 1..Len(node.children) |->
             IF node.children[i].path = SubSeq(p, 1, k + 1)
             THEN ReplaceAt(node.children[i], p, k + 1, new)
             ELSE node.children[i]] \o <<>>]

RECURSIVE AllNodes(_)
\* Every node of a tree.
AllNodes(node) ==
  {node} \cup UNION {AllNodes(node.children[i]) : i \in 1..Len(node.children)}

\* The node of the tree with path p (paths start with the root's path).
FindNode(root, p) == NodeAt(root, p, Len(root.path))

\* children.unshift(child) for children.push(child).
PushChild_Unshift(root, p, child) ==
  ReplaceAt(root, p, Len(root.path),
    [FindNode(root, p) EXCEPT !.children = <<child>> \o @])

\* node.children!.push(child), node being the node at path p
PushChild(root, p, child) ==
  ReplaceAt(root, p, Len(root.path),
    [FindNode(root, p) EXCEPT !.children = Append(@, child)])

\* node.children = []
SetExpanded(root, p) ==
  ReplaceAt(root, p, Len(root.path),
    [FindNode(root, p) EXCEPT !.hasChildren = TRUE, !.children = <<>>])

\* node.truncated = true; node.size = <estimate>
SetTruncated(root, p, sz) ==
  ReplaceAt(root, p, Len(root.path),
    [FindNode(root, p) EXCEPT !.truncated = TRUE, !.size = sz])

\* ------------------------------------------------------------ SpecSnap
\* The working tree of a streaming scan part-way through: a chain of k
\* expanded directories ending in a directory that already received PreLoad
\* file entries; with nested, its first entry is a directory that received
\* PreLoad file entries too.  Patterns are the stat sizes of the entries in
\* the order they were pushed.
Patterns == {"zero", "one", "asc"}

\* Depths at which the wide directory sits (CHILD_LIMIT_DEPTH is 2).
WideDepths == {0, 1, 2}

PreSize(pat, i) ==
  CASE pat = "zero" -> 0
    [] pat = "one" -> 1
    [] pat = "asc" -> i
    [] pat = "desc" -> PreLoad + 1 - i

\* stat sizes and size estimates of the entries pushed after Init
InsertSizes == {0, 2}

EntryName(i) == "e" \o ToString(i)

ChainPath(k) == [i \in 1..k |-> "n" \o ToString(i)]

PreFiles(p, pat) ==
  [i \in 1..PreLoad |-> FileNode(Append(p, EntryName(i)), PreSize(pat, i))]

WideDir(p, pat, nested) ==
  [DirNode(p) EXCEPT !.hasChildren = TRUE,
     !.children =
       IF nested
       THEN <<[DirNode(Append(p, "sub")) EXCEPT !.hasChildren = TRUE,
                 !.children = PreFiles(Append(p, "sub"), pat)]>>
            \o PreFiles(p, pat)
       ELSE PreFiles(p, pat)]

RECURSIVE ChainTree(_, _, _, _)
\* Directories n1/n2/.../nk, each expanded, the last one the wide directory.
ChainTree(j, k, pat, nested) ==
  IF j = k THEN WideDir(ChainPath(k), pat, nested)
  ELSE [DirNode(ChainPath(j)) EXCEPT !.hasChildren = TRUE,
          !.children = <<ChainTree(j + 1, k, pat, nested)>>]

SnapIdle == /\ work = NoNode /\ snapSrc = NoNode /\ snap = NoNode
            /\ inserts = 0 /\ heap = <<>> /\ held = <<>>
            /\ data = 0 /\ pruned = NoNode /\ removed = <<>>

SnapInit ==
  /\ LimIdle /\ CallersIdle /\ ScanIdle
  /\ \E k \in WideDepths, pat \in Patterns, nested \in BOOLEAN :
       work = ChainTree(0, k, pat, nested)
  /\ snapSrc = NoNode
  /\ snap = NoNode
  /\ inserts = 0
  /\ heap = <<>> /\ held = <<>>
  /\ data = 0 /\ pruned = NoNode /\ removed = <<>>

RECURSIVE OpenDirs(_)
\* Paths of the directories still receiving entries: expanded directories
\* that hold no other directory being filled alone (the chain above the wide
\* directory has dispatched its only entry).
OpenDirs(node) ==
  IF node.type # "directory" \/ ~node.hasChildren THEN {}
  ELSE IF Len(node.children) = 1 /\ node.children[1].hasChildren
       THEN OpenDirs(node.children[1])
       ELSE {node.path}
            \cup UNION {OpenDirs(node.children[i]) :
                          i \in 1..Len(node.children)}

RECURSIVE Placeholders(_)
\* Paths of the directories pushed by their parent and not yet filled.
Placeholders(node) ==
  IF node.type # "directory" \/ node.truncated THEN {}
  ELSE IF ~node.hasChildren THEN {node.path}
       ELSE UNION {Placeholders(node.children[i]) :
                     i \in 1..Len(node.children)}

NextEntry(root, p) ==
  Append(p, EntryName(Len(FindNode(root, p).children) + 1))

\* fillNode, scanner.ts:250..258: a stat returned, the file is pushed.
SnapPushFile ==
  /\ inserts < MaxInserts
  /\ \E p \in OpenDirs(work), s \in InsertSizes :
       work' = PushChild(work, p, FileNode(NextEntry(work, p), s))
  /\ inserts' = inserts + 1
  /\ snapSrc' = NoNode /\ snap' = NoNode
  /\ UNCHANGED <<heap, held, data, pruned, removed,
                 limVars, callerVars, scanVars>>

\* fillNode, scanner.ts:236..243: the placeholder of a subdirectory is pushed.
SnapPushDir ==
  /\ inserts < MaxInserts
  /\ \E p \in OpenDirs(work) :
       work' = PushChild(work, p, DirNode(NextEntry(work, p)))
  /\ inserts' = inserts + 1
  /\ snapSrc' = NoNode /\ snap' = NoNode
  /\ UNCHANGED <<heap, held, data, pruned, removed,
                 limVars, callerVars, scanVars>>

\* fillNode, scanner.ts:221: the listing of a placeholder returned.
SnapExpand ==
  /\ inserts < MaxInserts
  /\ \E p \in Placeholders(work) : work' = SetExpanded(work, p)
  /\ inserts' = inserts + 1
  /\ snapSrc' = NoNode /\ snap' = NoNode
  /\ UNCHANGED <<heap, held, data, pruned, removed,
                 limVars, callerVars, scanVars>>

\* fillNode, scanner.ts:203..205: a placeholder at maxDepth is truncated.
SnapTruncate ==
  /\ inserts < MaxInserts
  /\ \E p \in Placeholders(work), s \in InsertSizes :
       work' = SetTruncated(work, p, s)
  /\ inserts' = inserts + 1
  /\ snapSrc' = NoNode /\ snap' = NoNode
  /\ UNCHANGED <<heap, held, data, pruned, removed,
                 limVars, callerVars, scanVars>>

\* The timer callback, scanner.ts:165..171: onProgress(snapshot(root), ..).
\* snap is the snapshot handed to onProgress in this step, snapSrc the
\* working tree it was taken from.
SnapTick ==
  /\ snap' = snapshot(work)
  /\ snapSrc' = work
  /\ UNCHANGED <<work, inserts, heap, held, data, pruned, removed, limVars,
                 callerVars, scanVars>>

SnapNext ==
  \/ SnapPushFile
  \/ SnapPushDir
  \/ SnapExpand
  \/ SnapTruncate
  \/ SnapTick

SpecSnap == SnapInit /\ [][SnapNext]_vars

\* ---------------------------------------------------------------- SpecHeap
\* The TreeNode objects themselves: heap[a] is the object at address a, its
\* children the addresses of its child objects, so that two trees can share
\* an object.  The working tree's root is the first object made.
WorkRoot == 1

RECURSIVE Reach(_, _)
\* The objects of the tree whose root is at a.
Reach(h, a) ==
  {a} \cup UNION {Reach(h, h[a].children[i]) : i \in 1..Len(h[a].children)}

RECURSIVE ValueOf(_, _)
\* The tree at a as a value.
ValueOf(h, a) ==
  [h[a] EXCEPT !.children =
     [i \in 1..Len(h[a].children) |-> ValueOf(h, h[a].children[i])] \o <<>>]

\* The addresses of as in increasing order.
Ascending(as) ==
  [r \in 1..Cardinality(as) |->
     CHOOSE a \in as : Cardinality({b \in as : b < a}) = r - 1] \o <<>>

\* The objects that make up the tree value node, root first: every object
\* after the objects of its elder siblings and their descendants.
RECURSIVE SumOfCounts(_, _)
SumOfCounts(ns, n) == IF n = 0 THEN 0 ELSE ns[n] + SumOfCounts(ns, n - 1)

RECURSIVE SizeOfTree(_)
SizeOfTree(node) ==
  1 + SumOfCounts([i \in 1..Len(node.children) |->
                     SizeOfTree(node.children[i])] \o <<>>,
                  Len(node.children))

RECURSIVE HeapOf(_, _)
\* The objects of the tree value node, laid out from address base on.
HeapOf(node, base) ==
  LET n == Len(node.children)
      sizes == [i \in 1..n |-> SizeOfTree(node.children[i])] \o <<>>
      at == [i \in 1..n |-> base + 1 + SumOfCounts(sizes, i - 1)] \o <<>>
      Below(i) == HeapOf(node.children[i], at[i])
      rest == [i \in 1..n |-> Below(i)] \o <<>>
      total == SumOfCounts(sizes, n)
      flat == [j \in 1..total |->
                 LET i == CHOOSE x \in 1..n :
                            at[x] <= base + j /\ base + j < at[x] + sizes[x]
                 IN rest[i][base + j - at[i] + 1]] \o <<>>
  IN <<[node EXCEPT !.children = at]>> \o flat

\* A copy that is a new root object over the children of the old one.
JsonCloneAt_Shallow(h, a) ==
  [heap |-> Append(h, h[a]), root |-> Len(h) + 1]

\* JSON.parse(JSON.stringify(root)) (scanner.ts:185): a new object for
\* every object of the tree at a.
JsonCloneAt(h, a) ==
  LET old == Ascending(Reach(h, a))
      New(x) == Len(h) + (CHOOSE r \in 1..Len(old) : old[r] = x)
  IN [heap |-> h \o [r \in 1..Len(old) |->
                       [h[old[r]] EXCEPT !.children =
                          [i \in 1..Len(h[old[r]].children) |->
                             New(h[old[r]].children[i])] \o <<>>]],
      root |-> New(a)]

\* The children of the object at a that have children of their own.
InnerKids(h, a) ==
  LET cs == h[a].children
      at == Ascending({i \in 1..Len(cs) : Len(h[cs[i]].children) > 0})
  IN [r \in 1..Len(at) |-> cs[at[r]]] \o <<>>

\* children.sort((a, b) => b.size - a.size) on addresses (stable).
SortAddrsBySizeDesc(h, cs) ==
  LET n == Len(cs)
      rank == [i \in 1..n |->
                 Cardinality({j \in 1..n :
                    \/ h[cs[j]].size > h[cs[i]].size
                    \/ h[cs[j]].size = h[cs[i]].size /\ j < i})] \o <<>>
  IN [r \in 1..n |-> cs[CHOOSE i \in 1..n : rank[i] = r - 1]] \o <<>>

SumSizesAt(h, cs) == SumSizes([i \in 1..Len(cs) |-> h[cs[i]]] \o <<>>)

RECURSIVE recalcSizesAt(_, _)
RECURSIVE recalcKidsAt(_, _, _)
\* recalcSizes(node) on the object at a, in place (scanner.ts:269..276).  A
\* child without children returns at line 270, so the loop is run over the
\* others.
recalcSizesAt(h, a) ==
  IF ~h[a].hasChildren \/ Len(h[a].children) = 0 THEN h
  ELSE LET kids == InnerKids(h, a)
           h1 == recalcKidsAt(h, kids, Len(kids))
           sorted == SortAddrsBySizeDesc(h1, h1[a].children)
       IN [h1 EXCEPT ![a].children = sorted,
                     ![a].size = SumSizesAt(h1, sorted)]

recalcKidsAt(h, kids, n) ==
  IF n = 0 THEN h ELSE recalcSizesAt(recalcKidsAt(h, kids, n - 1), kids[n])

RECURSIVE applyChildLimitsAt(_, _, _)
RECURSIVE limitKidsAt(_, _, _, _)
\* applyChildLimits(node, depth) on the object at a, in place
\* (scanner.ts:279..299): kept is a new list, the aggregate a new object.
applyChildLimitsAt(h, a, depth) ==
  IF ~h[a].hasChildren \/ Len(h[a].children) = 0 THEN h
  ELSE LET kids == InnerKids(h, a)
           h1 == limitKidsAt(h, kids, Len(kids), depth + 1)
           cs == h1[a].children
       IN IF depth >= CHILD_LIMIT_DEPTH /\ Len(cs) > MAX_CHILDREN
          THEN LET kept == SubSeq(cs, 1, MAX_CHILDREN)
                   droppedSize ==
                     SumSizesAt(h1, SubSeq(cs, MAX_CHILDREN + 1, Len(cs)))
               IN IF droppedSize > 0
                  THEN [Append(h1, OtherNode(h1[a].path,
                                     Len(cs) - MAX_CHILDREN, droppedSize))
                          EXCEPT ![a].children = Append(kept, Len(h1) + 1)]
                  ELSE [h1 EXCEPT ![a].children = kept]
          ELSE h1

limitKidsAt(h, kids, n, depth) ==
  IF n = 0 THEN h
  ELSE applyChildLimitsAt(limitKidsAt(h, kids, n - 1, depth), kids[n], depth)

\* snapshot(root) (scanner.ts:184..190): the heap afterwards and the address
\* of the clone it returns.
snapshotAt(h, a) ==
  LET c == JsonCloneAt(h, a)
  IN [heap |-> recalcSizesAt(
                 applyChildLimitsAt(recalcSizesAt(c.heap, c.root), c.root, 0),
                 c.root),
      root |-> c.root]

\* Depths at which the wide directory of the working tree sits.
HeapDepths == {CHILD_LIMIT_DEPTH}

HeapInit ==
  /\ LimIdle /\ CallersIdle /\ ScanIdle
  /\ work = NoNode /\ snapSrc = NoNode /\ snap = NoNode /\ inserts = 0
  /\ \E k \in HeapDepths, pat \in Patterns, nested \in BOOLEAN :
       heap = HeapOf(ChainTree(0, k, pat, nested), WorkRoot)
  /\ held = <<>>
  /\ data = 0 /\ pruned = NoNode /\ removed = <<>>

\* The directories of the working tree that are still receiving entries.
OpenAt(h) ==
  LET open == OpenDirs(ValueOf(h, WorkRoot))
  IN {a \in Reach(h, WorkRoot) : h[a].path \in open}

\* fillNode, scanner.ts:250..258: node.children.push({...}) after a stat.
HeapPushFile ==
  /\ inserts < MaxPushes
  /\ \E a \in OpenAt(heap), s \in InsertSizes \ {0} :
       heap' = [Append(heap,
                  FileNode(Append(heap[a].path,
                             EntryName(Len(heap[a].children) + 1)), s))
                EXCEPT ![a].children = Append(@, Len(heap) + 1)]
  /\ inserts' = inserts + 1
  /\ UNCHANGED <<held, work, snapSrc, snap, data, pruned, removed,
                 limVars, callerVars, scanVars>>

\* The timer callback (scanner.ts:165..171): the consumer keeps the
\* snapshot it is handed.
HeapTick ==
  /\ Len(held) < MaxHeld
  /\ \E s \in {snapshotAt(heap, WorkRoot)} :
       /\ heap' = s.heap
       /\ held' = Append(held, s.root)
  /\ UNCHANGED <<inserts, work, snapSrc, snap, data, pruned, removed,
                 limVars, callerVars, scanVars>>

\* The place in held of a snapshot nobody holds any more.
Dropped == 0

\* What a consumer writes over the sizes of a snapshot.
Scribble == 0 - 7

\* A consumer changes the snapshot it holds: it empties the root's list of
\* children and overwrites the size of every object of the snapshot.
HeapMutate(i) ==
  /\ held[i] # Dropped
  /\ heap[held[i]].size # Scribble
  /\ heap' = LET mine == Reach(heap, held[i])
             IN [a \in 1..Len(heap) |->
                   IF a \in mine
                   THEN [heap[a] EXCEPT
                           !.size = Scribble,
                           !.children = IF a = held[i] THEN <<>> ELSE @]
                   ELSE heap[a]] \o <<>>
  /\ UNCHANGED <<held, inserts, work, snapSrc, snap, data, pruned, removed,
                 limVars, callerVars,
                 scanVars>>

\* A consumer drops the snapshot it holds.
HeapDiscard(i) ==
  /\ held[i] # Dropped
  /\ held' = [held EXCEPT ![i] = Dropped]
  /\ UNCHANGED <<heap, inserts, work, snapSrc, snap, data, pruned, removed,
                 limVars, callerVars,
                 scanVars>>

NextHeap ==
  \/ HeapPushFile
  \/ HeapTick
  \/ \E i \in 1..Len(held) : HeapMutate(i)
  \/ \E i \in 1..Len(held) : HeapDiscard(i)

SpecHeap == HeapInit /\ [][NextHeap]_vars

\* ------------------------------------------------------------- SpecView
\* The frontend: the tree it was sent (useScan's data), removeNode applied
\* to it when an entry is deleted (components/Legend.tsx:48), and
\* useTreemapLayout pruning it for the layout.  The TreeNode objects are in
\* heap, by address, as in SpecHeap.
\*
\* The tree sent: the snapshot of a finished scan of /v, which holds n
\* directories of PreLoad files each (with nested, each of them starts with
\* a directory sub of PreLoad files more), a directory t cut off at the
\* depth limit and an empty directory z.
ViewWork(n, pat, nested) ==
  [DirNode(<<"v">>) EXCEPT !.hasChildren = TRUE,
     !.children =
       [i \in 1..n |-> WideDir(<<"v", EntryName(i)>>, pat, nested)]
       \o <<[DirNode(<<"v", "t">>) EXCEPT !.truncated = TRUE, !.size = 3],
            [DirNode(<<"v", "z">>) EXCEPT !.hasChildren = TRUE]>>]

ViewWidths == {0, 2, ViewDirs}

\* The paths removeNode is called with: the root, directories, files, and
\* paths the tree does not hold.
ViewTargets ==
  {<<"v">>, <<"v", "e1">>, <<"v", "e2", "e3">>, <<"v", "e1", "sub">>,
   <<"v", "e2", "sub", "e1">>, <<"v", "t">>, <<"v", "z">>,
   <<"v", "nope">>, <<"u">>}

ViewInit ==
  /\ LimIdle /\ CallersIdle /\ ScanIdle
  /\ work = NoNode /\ snapSrc = NoNode /\ snap = NoNode /\ inserts = 0
  /\ held = <<>>
  /\ \E n \in ViewWidths, pat \in Patterns, nested \in BOOLEAN :
       heap = HeapOf(snapshot(ViewWork(n, pat, nested)), 1)
  /\ data = 1
  /\ pruned = NoNode
  /\ removed = <<>>

RECURSIVE pruneRecursiveAt(_, _, _)
RECURSIVE pruneKidsAt(_, _, _, _, _)
\* treeUtils.ts:20..23: the rounds lo..hi of the loop over node.children,
\* entered with s (kids is newChildren).  The rounds are done in order:
\* the range is halved, and the first half is evaluated before the second
\* is entered, which keeps the evaluation shallow.
pruneKidsAt(s, cs, lo, hi, targetPath) ==
  IF lo > hi THEN s
  ELSE IF lo = hi
  THEN IF s.heap[cs[lo]].path = targetPath THEN s
       ELSE LET r == pruneRecursiveAt(s.heap, cs[lo], targetPath)
            IN [heap |-> r.heap, kids |-> Append(s.kids, r.root)]
  ELSE LET mid == (lo + hi) \div 2
           first == pruneKidsAt(s, cs, lo, mid, targetPath)
       IN CASE Len(first.heap) > 0 ->
            pruneKidsAt(first, cs, mid + 1, hi, targetPath)

\* pruneRecursive that keeps the size the node had.
pruneRecursiveAt_KeepsSize(h, a, targetPath) ==
  IF ~h[a].hasChildren THEN [heap |-> h, root |-> a]
  ELSE LET s == pruneKidsAt([heap |-> h, kids |-> <<>>], h[a].children,
                            1, Len(h[a].children), targetPath)
       IN [heap |-> Append(s.heap, [h[a] EXCEPT !.children = s.kids]),
           root |-> Len(s.heap) + 1]

\* treeUtils.ts:16..27.  { ...node, children: newChildren, size: newSize }
\* is a new object.
pruneRecursiveAt(h, a, targetPath) ==
  IF ~h[a].hasChildren THEN [heap |-> h, root |-> a]
  ELSE LET s == pruneKidsAt([heap |-> h, kids |-> <<>>], h[a].children,
                            1, Len(h[a].children), targetPath)
           newSize == SumSizesAt(s.heap, s.kids)
       IN [heap |-> Append(s.heap, [h[a] EXCEPT !.children = s.kids,
                                                !.size = newSize]),
           root |-> Len(s.heap) + 1]

\* treeUtils.ts:8..14; root 0 is null.
removeNodeAt(h, a, targetPath) ==
  IF h[a].path = targetPath THEN [heap |-> h, root |-> 0]
  ELSE pruneRecursiveAt(h, a, targetPath)

RECURSIVE countLeaves(_)
\* useTreemapLayout.ts:62..65
countLeaves(node) ==
  IF ~node.hasChildren \/ Len(node.children) = 0 THEN 1
  ELSE SumOfCounts([i \in 1..Len(node.children) |->
                      countLeaves(node.children[i])] \o <<>>,
                   Len(node.children))

RECURSIVE pruneTree(_, _)
RECURSIVE pruneLoop(_, _, _, _, _)
\* useTreemapLayout.ts:46..57: the rounds lo..hi of the loop over
\* node.children, entered with s; a round after the break is no round.  The
\* rounds are done in order: the range is halved, and the first half is
\* evaluated before the second is entered, which keeps the evaluation
\* shallow.
pruneLoop(s, cs, lo, hi, maxNodes) ==
  IF lo > hi THEN s
  ELSE IF lo = hi
  THEN IF s.leafCount >= maxNodes THEN s
       ELSE IF cs[lo].type = "file"
       THEN [children |-> Append(s.children, cs[lo]),
             leafCount |-> s.leafCount + 1]
       ELSE LET prunedChild == pruneTree(cs[lo], maxNodes - s.leafCount)
            IN [children |-> Append(s.children, prunedChild),
                leafCount |-> s.leafCount + countLeaves(prunedChild)]
  ELSE LET mid == (lo + hi) \div 2
           first == pruneLoop(s, cs, lo, mid, maxNodes)
       IN IF first.leafCount >= maxNodes THEN first
          ELSE pruneLoop(first, cs, mid + 1, hi, maxNodes)

\* pruneTree handing every directory the whole budget.
pruneTree_WholeBudget(node, maxNodes) ==
  IF ~node.hasChildren \/ Len(node.children) = 0 THEN node
  ELSE [node EXCEPT !.children =
          [i \in 1..Len(node.children) |->
             IF node.children[i].type = "file" THEN node.children[i]
             ELSE pruneTree(node.children[i], maxNodes)] \o <<>>]

\* useTreemapLayout.ts:39..60
pruneTree(node, maxNodes) ==
  IF ~node.hasChildren \/ Len(node.children) = 0 THEN node
  ELSE [node EXCEPT !.children =
          pruneLoop([children |-> <<>>, leafCount |-> 0], node.children,
                    1, Len(node.children), maxNodes).children]

\* Legend.tsx:48: setData(removeNode(data, path)); the new data makes the
\* memoised layout stale.
RemoveNode(targetPath) ==
  /\ data # 0
  /\ Len(removed) < MaxRemovals
  /\ \E r \in {removeNodeAt(heap, data, targetPath)} :
       /\ heap' = r.heap
       /\ data' = r.root
  /\ pruned' = NoNode
  /\ removed' = Append(removed, targetPath)
  /\ UNCHANGED <<held, inserts, work, snapSrc, snap,
                 limVars, callerVars, scanVars>>

\* useTreemapLayout.ts:15..21: a render with a tree to show.
Layout ==
  /\ data # 0
  /\ pruned = NoNode
  /\ pruned' = pruneTree(ValueOf(heap, data), MAX_RECTS)
  /\ UNCHANGED <<heap, data, removed, held, inserts, work, snapSrc, snap,
                 limVars, callerVars, scanVars>>

NextView ==
  \/ \E targetPath \in ViewTargets : RemoveNode(targetPath)
  \/ Layout

SpecView == ViewInit /\ [][NextView]_vars

\* --------------------------------------------------- claims on snapshots
RECURSIVE SizesSumUp(_)
\* Every node with a children list has the size of its children together.
SizesSumUp(node) ==
  /\ node.hasChildren => node.size = SumSizes(node.children)
  /\ \A i \in 1..Len(node.children) : SizesSumUp(node.children[i])

RECURSIVE ChildrenSorted(_)
\* Every children list is in non-increasing order of size.
ChildrenSorted(node) ==
  /\ \A i \in 1..Len(node.children) - 1 :
       node.children[i].size >= node.children[i + 1].size
  /\ \A i \in 1..Len(node.children) : ChildrenSorted(node.children[i])

RECURSIVE TotalSize(_)
RECURSIVE TotalUpTo(_, _, _)
\* What a working-tree node weighs: a file its stat size, a truncated
\* directory its estimate, an expanded directory its entries together.
TotalSize(node) ==
  IF node.hasChildren /\ Len(node.children) > 0
  THEN TotalUpTo(node.children, Len(node.children), {})
  ELSE node.size

\* The first n entries of cs together, those with a path in skip left out.
TotalUpTo(cs, n, skip) ==
  IF n = 0 THEN 0
  ELSE (IF cs[n].path \in skip THEN 0 ELSE TotalSize(cs[n]))
       + TotalUpTo(cs, n - 1, skip)

IsAggregate(node) == node.count > 0

\* The cap as the claim states it, for snapshot node sn of working node wn.
CapApplied(sn, wn) ==
  LET explicit == {i \in 1..Len(sn.children) : ~IsAggregate(sn.children[i])}
      aggs == {i \in 1..Len(sn.children) : IsAggregate(sn.children[i])}
      keptPaths == {sn.children[i].path : i \in explicit}
      folded == {j \in 1..Len(wn.children) :
                   wn.children[j].path \notin keptPaths}
      foldedSize == TotalUpTo(wn.children, Len(wn.children), keptPaths)
  IN /\ Cardinality(explicit) = MAX_CHILDREN
     /\ Cardinality(keptPaths) = MAX_CHILDREN
     /\ keptPaths \subseteq {wn.children[j].path : j \in 1..Len(wn.children)}
     /\ Cardinality(aggs) <= 1
     /\ \A i \in explicit, j \in folded :
          sn.children[i].size >= TotalSize(wn.children[j])
     /\ (aggs # {}) <=> (foldedSize > 0)
     /\ \A i \in aggs : /\ sn.children[i].size = foldedSize
                        /\ sn.children[i].count = Cardinality(folded)
                        /\ sn.children[i].type = "file"

\* No cap: the snapshot node lists exactly the entries of the working node.
AllKept(sn, wn) ==
  /\ Len(sn.children) = Len(wn.children)
  /\ {sn.children[i].path : i \in 1..Len(sn.children)}
       = {wn.children[j].path : j \in 1..Len(wn.children)}
  /\ \A i \in 1..Len(sn.children) : ~IsAggregate(sn.children[i])

RECURSIVE CapRespected(_, _, _)
\* sn: a node of the snapshot at the given depth; src: the working tree the
\* snapshot was taken from.
CapRespected(sn, src, depth) ==
  LET wn == FindNode(src, sn.path)
  IN /\ (sn.hasChildren /\ ~IsAggregate(sn)) =>
          IF depth >= CHILD_LIMIT_DEPTH /\ Len(wn.children) > MAX_CHILDREN
          THEN CapApplied(sn, wn)
          ELSE AllKept(sn, wn)
     /\ \A i \in 1..Len(sn.children) :
          CapRespected(sn.children[i], src, depth + 1)

\* C5: in every published snapshot every directory node whose children are
\* present has size equal to the sum of its children's sizes.
C5_SizeIsSumOfChildren == snap # NoNode => SizesSumUp(snap)

RECURSIVE HasHeavyNestedDir(_, _)
HasHeavyNestedDir(node, depth) ==
  \/ depth >= 1 /\ node.hasChildren /\ Len(node.children) > 0 /\ node.size > 0
  \/ \E i \in 1..Len(node.children) :
       HasHeavyNestedDir(node.children[i], depth + 1)

\* A snapshot holding a nested directory that has children and a size.
C5_Witness ==
  /\ snap # NoNode /\ inserts >= 2
  /\ HasHeavyNestedDir(snap, 0)
  /\ SizesSumUp(snap) /\ ~SizesSumUp(snapSrc)

\* C6: in every published snapshot every children list is sorted by size in
\* non-increasing order, the aggregate node included.
C6_ChildrenSortedBySize == snap # NoNode => ChildrenSorted(snap)

RECURSIVE AggregateNotLast(_)
AggregateNotLast(node) ==
  \/ \E i \in 1..Len(node.children) - 1 :
       /\ IsAggregate(node.children[i])
       /\ node.children[i].size > node.children[i + 1].size
  \/ \E i \in 1..Len(node.children) : AggregateNotLast(node.children[i])

\* A snapshot where the re-sort moved an aggregate ahead of kept entries.
C6_Witness == snap # NoNode /\ AggregateNotLast(snap) /\ ChildrenSorted(snap)

\* C7: in every published snapshot a directory at depth >= CHILD_LIMIT_DEPTH
\* with more than MAX_CHILDREN working-tree entries shows exactly
\* MAX_CHILDREN explicit children, the largest ones, and at most one
\* aggregate, present exactly when the folded entries weigh more than 0 and
\* then of exactly their size; any other directory keeps all its children.
C7_ChildCap == snap # NoNode => CapRespected(snap, snapSrc, 0)

RECURSIVE HasFold(_, _, _)
\* Some directory of the snapshot at depth >= minDepth holds an aggregate
\* standing for at least n entries.
HasFold(node, depth, n) ==
  \/ \E i \in 1..Len(node.children) :
       /\ node.children[i].count >= n
       /\ depth >= CHILD_LIMIT_DEPTH
  \/ \E i \in 1..Len(node.children) : HasFold(node.children[i], depth + 1, n)

RECURSIVE HasWideUncapped(_, _)
HasWideUncapped(node, depth) ==
  \/ depth < CHILD_LIMIT_DEPTH /\ Len(node.children) > MAX_CHILDREN
  \/ \E i \in 1..Len(node.children) :
       HasWideUncapped(node.children[i], depth + 1)

\* A snapshot with an aggregate of two or more entries below the cap depth
\* and, above it, a directory keeping more than MAX_CHILDREN children.
C7_Witness ==
  /\ snap # NoNode
  /\ HasFold(snap, 0, 2)
  /\ HasWideUncapped(snap, 0)
  /\ CapRespected(snap, snapSrc, 0)

\* ------------------------------------------------------------- SpecLim
\* withSlot (scanner.ts:41..48) under any number of callers: the walkers of
\* any scans.  A caller is known by its arrival number.
LimInit ==
  /\ LimIdle /\ CallersIdle
  /\ SnapIdle /\ ScanIdle

\* withSlot up to the await of acquireSlot; a caller granted at once goes on
\* to fn() in the same turn.
LimCall ==
  /\ arrivals < MaxCalls
  /\ LET who == arrivals + 1
         r == acquireSlot(active, queue, who)
     IN /\ arrivals' = who
        /\ active' = r.active
        /\ queue' = r.queue
        /\ running' = IF r.granted THEN running + 1 ELSE running
        /\ grants' = IF r.granted THEN grants + 1 ELSE grants
        /\ lastGrant' = IF r.granted THEN who ELSE lastGrant
  /\ UNCHANGED <<snapVars, scanVars>>

\* withSlot whose finally always gives the slot up (active--) and then
\* resumes the caller at the head of the queue.
LimReturn_AlwaysFrees ==
  /\ running > 0
  /\ LET r == releaseSlot(active, queue)
     IN /\ active' = active - 1
        /\ queue' = r.queue
        /\ running' = running - 1 + Len(r.resumed)
        /\ grants' = grants + Len(r.resumed)
        /\ lastGrant' = IF r.resumed # <<>> THEN r.resumed[1] ELSE lastGrant
  /\ UNCHANGED <<arrivals, snapVars, scanVars>>

\* fn() settles (resolved or rejected alike): finally releaseSlot(); the
\* caller whose resolver was called goes on to its own fn().
LimReturn ==
  /\ running > 0
  /\ LET r == releaseSlot(active, queue)
     IN /\ active' = r.active
        /\ queue' = r.queue
        /\ running' = running - 1 + Len(r.resumed)
        /\ grants' = grants + Len(r.resumed)
        /\ lastGrant' = IF r.resumed # <<>> THEN r.resumed[1] ELSE lastGrant
  /\ UNCHANGED <<arrivals, snapVars, scanVars>>

LimNext ==
  \/ LimCall
  \/ LimReturn

SpecLim == LimInit /\ [][LimNext]_vars

\* C1: the calls holding a slot are never more than MAX_CONCURRENT, and
\* active stays within 0..MAX_CONCURRENT.
C1_AtMostCapacityInFlight ==
  /\ running <= MAX_CONCURRENT
  /\ active \in 0..MAX_CONCURRENT
  /\ running = active

\* Every slot taken, callers waiting, and calls already returned.
C1_Witness ==
  /\ active = MAX_CONCURRENT /\ running = MAX_CONCURRENT
  /\ Len(queue) >= 2
  /\ grants > MAX_CONCURRENT

\* C4: slots are granted in arrival order: the k-th grant goes to the k-th
\* caller, so no caller is granted a slot before one that arrived earlier,
\* queued or not.
C4_GrantsInArrivalOrder ==
  /\ lastGrant = grants
  /\ \A i \in 1..Len(queue) : queue[i] = grants + i

\* A grant made by releaseSlot to a queued caller while others still wait.
C4_Witness ==
  /\ grants > MAX_CONCURRENT
  /\ Len(queue) >= 2
  /\ lastGrant = grants

\* ----------------------------------------------------------- filesystem
\* The fixture the scans run over.  /a: f (10 bytes), ln (a symbolic link to
\* /a itself), d/ holding g (20 bytes), h (5 bytes) and lf (a symbolic link
\* to a file).  /b: the nested directories c1/c2/../c<ChainDirs>, so that c8
\* sits at depth MAX_DEPTH of a scan of /b.  /w: x/ holding k and y/, which
\* holds the WideFiles files e1, e2, ..; every file of /w has 1 byte.  /u:
\* the same as /w, but the file e<i> of /u/x/y has i bytes.
ScanPaths == {<<"a">>, <<"b">>}

Dirent(name, type) == [name |-> name, type |-> type]
isSymbolicLink(e) == e.type = "symlink"
isDirectory(e) == e.type = "dir"

isFile(e) == e.type = "file"

\* readdir(path, { withFileTypes: true }) when it succeeds
FsEntries(p) ==
  CASE p = <<"a">> ->
         <<Dirent("f", "file"), Dirent("ln", "symlink"), Dirent("d", "dir")>>
    [] p = <<"a", "d">> ->
         <<Dirent("g", "file"), Dirent("lf", "symlink"),
           Dirent("h", "file")>>
    [] p[1] = "b" /\ Len(p) <= ChainDirs ->
         <<Dirent("c" \o ToString(Len(p)), "dir")>>
    [] p \in {<<"w">>, <<"u">>} -> <<Dirent("x", "dir")>>
    [] p \in {<<"w", "x">>, <<"u", "x">>} ->
         <<Dirent("k", "file"), Dirent("y", "dir")>>
    [] p \in {<<"w", "x", "y">>, <<"u", "x", "y">>} ->
         [i \in 1..WideFiles |-> Dirent(EntryName(i), "file")]
    [] OTHER -> <<>>

\* (await stat(path)).size when it succeeds
FsFileSize(p) ==
  CASE p = <<"a", "f">> -> 10
    [] p = <<"a", "d", "g">> -> 20
    [] p = <<"a", "d", "h">> -> 5
    [] Len(p) = 4 /\ p[1] = "u" ->
         CHOOSE i \in 1..WideFiles : EntryName(i) = p[Len(p)]
    [] OTHER -> 1

\* the kilobytes `du -sk path` prints when it succeeds
FsDuKb(p) == 3

\* The paths whose filesystem calls can fail: a listing, a stat, and the du
\* of the directory at depth MAX_DEPTH below /b.
Flaky(p) ==
  \/ p \in {<<"a", "d">>, <<"a", "d", "g">>}
  \/ p[1] = "b" /\ Len(p) = MAX_DEPTH + 1
Outcomes(p) == IF Flaky(p) THEN BOOLEAN ELSE {TRUE}

IsPrefix(p, q) == Len(p) <= Len(q) /\ SubSeq(q, 1, Len(p)) = p
Parent(p) == SubSeq(p, 1, Len(p) - 1)

\* ------------------------------------------------------------ fastDirSize
\* Texts are sequences of characters.  NaN stands for the NaN of parseInt.
NaN == -1
Digits == {"0", "1", "2", "3", "4", "5", "6", "7", "8", "9"}
DigitValue(c) == CHOOSE d \in 0..9 : ToString(d) = c

\* text.split("\t")[0]
FirstField(text) ==
  LET tabs == {i \in 1..Len(text) : text[i] = "\t"}
  IN IF tabs = {} THEN text
     ELSE SubSeq(text, 1, (CHOOSE i \in tabs : \A j \in tabs : i <= j) - 1)

RECURSIVE DigitsValue(_, _)
\* The number the first n characters of cs spell, all of them digits.
DigitsValue(cs, n) ==
  IF n = 0 THEN 0 ELSE 10 * DigitsValue(cs, n - 1) + DigitValue(cs[n])

\* parseInt(cs, 10): leading blanks skipped, then the longest run of
\* digits; NaN when there is none.  (No sign: du prints none.)
parseInt(cs) ==
  LET blanks == {i \in 0..Len(cs) : \A j \in 1..i : cs[j] = " "}
      start == (CHOOSE i \in blanks : \A j \in blanks : j <= i) + 1
      runs == {n \in start - 1..Len(cs) : \A j \in start..n : cs[j] \in Digits}
      end == CHOOSE n \in runs : \A m \in runs : m <= n
  IN IF end < start THEN NaN
     ELSE DigitsValue(SubSeq(cs, start, end), end - start + 1)

\* How a `du -sk path` subprocess can end (scanner.ts:309..312): err is
\* the error execFile hands its callback (a non-zero exit, a spawn error,
\* or the kill at the 300 s timeout), stdout what the process printed.
DuRun(how, err, stdout) == [how |-> how, err |-> err, stdout |-> stdout]
NoRun == DuRun("none", FALSE, <<>>)
DuRuns(p) ==
  {DuRun("exit 0", FALSE, <<ToString(FsDuKb(p)), "\t", "/">>)}
    \cup (IF Flaky(p)
          THEN {DuRun("exit 1", TRUE, <<>>),
                DuRun("timeout", TRUE, <<"1", "2">>),
                DuRun("no output", FALSE, <<>>),
                DuRun("garbage", FALSE, <<"d", "u", ":", " ", "7", "\t", "/">>)}
          ELSE {})

\* fastDirSize that hands a NaN on to the walker.
fastDirSize_NaN(run, aborted) ==
  IF run.err \/ aborted THEN 0
  ELSE parseInt(FirstField(run.stdout)) * 1024

\* fastDirSize once its subprocess has ended with run (scanner.ts:307..321);
\* aborted is the signal at line 316.
fastDirSize(run, aborted) ==
  IF run.err THEN 0
  ELSE IF aborted THEN 0
  ELSE LET kb == parseInt(FirstField(run.stdout))
       IN IF kb = NaN THEN 0 ELSE kb * 1024

\* The outcomes of a filesystem call, and whether one leaves its caller
\* with a result: a listing, a stat, or a size other than the 0 of the
\* catch.
CallRuns(o) ==
  IF o.kind = "du" THEN DuRuns(o.path)
  ELSE {DuRun("call", ~ok, <<>>) : ok \in Outcomes(o.path)}
RunOk(o, run) ==
  IF o.kind = "du" THEN fastDirSize(run, FALSE) # 0 ELSE ~run.err

\* ---------------------------------------------------------------- walker
\* ScanProgress (scanner.ts:139..142); NullProgress stands for null.
NullProgress == [dirsFound |-> 0, dirsCompleted |-> 0]

\* A filesystem call that has not returned: kind is readdir, stat or du;
\* slot says whether its caller holds a limiter slot; st is "waiting" while
\* the caller is suspended in acquireSlot, "inflight" once the call is made.
Op(sid, path, kind, depth) ==
  [sid |-> sid, path |-> path, kind |-> kind, depth |-> depth,
   slot |-> FALSE, st |-> "new"]

OpId(o) == <<o.sid, o.path>>

\* fastDirSize returning the kilobytes du printed as if they were bytes.
fastDirSizeResult_NoScale(path, ok, aborted) ==
  IF ~ok \/ aborted THEN 0 ELSE FsDuKb(path)

\* withSlot releasing its slot only when fn() resolved (no finally).
withSlotFinally_OnSuccess(a, q, slot, ok) ==
  IF slot /\ ok THEN releaseSlot(a, q)
  ELSE [active |-> a, queue |-> q, resumed |-> <<>>]

\* The finally of withSlot (scanner.ts:45..47) when fn() settled, resolved
\* (ok) or rejected; slot says whether the call was made through withSlot.
withSlotFinally(a, q, slot, ok) ==
  IF slot THEN releaseSlot(a, q)
  ELSE [active |-> a, queue |-> q, resumed |-> <<>>]

\* fastDirSize when the subprocess ended (scanner.ts:316..320)
fastDirSizeResult(path, ok, aborted) ==
  IF ~ok \/ aborted THEN 0 ELSE FsDuKb(path) * 1024

\* EntryOp calling stat on a symbolic link as on a regular file.
EntryOp_StatsLinks(sid, dir, depth, maxDepth, e) ==
  IF isDirectory(e)
  THEN IF depth + 1 >= maxDepth
       THEN <<Op(sid, Append(dir, e.name), "du", depth + 1)>>
       ELSE <<Op(sid, Append(dir, e.name), "readdir", depth + 1)>>
  ELSE IF isFile(e) \/ isSymbolicLink(e)
       THEN <<Op(sid, Append(dir, e.name), "stat", depth + 1)>>
       ELSE <<>>

\* The calls fillNode makes for the entries of a listing, in entry order
\* (scanner.ts:230..261 with the head of the recursive fillNode, 201..213).
EntryOp(sid, dir, depth, maxDepth, e) ==
  IF isSymbolicLink(e) THEN <<>>
  ELSE IF isDirectory(e)
       THEN IF depth + 1 >= maxDepth
            THEN <<Op(sid, Append(dir, e.name), "du", depth + 1)>>
            ELSE <<Op(sid, Append(dir, e.name), "readdir", depth + 1)>>
       ELSE IF isFile(e)
            THEN <<Op(sid, Append(dir, e.name), "stat", depth + 1)>>
            ELSE <<>>

RECURSIVE EntryOps(_, _, _, _, _, _)
EntryOps(sid, dir, depth, maxDepth, es, n) ==
  IF n = 0 THEN <<>>
  ELSE EntryOps(sid, dir, depth, maxDepth, es, n - 1)
       \o EntryOp(sid, dir, depth, maxDepth, es[n])

\* A placeholder pushed with a provisional size.
Placeholder_Provisional(dir, depth, maxDepth, e) ==
  [DirNode(Append(dir, e.name)) EXCEPT !.truncated = (depth + 1 >= maxDepth),
                                       !.size = 1]

\* The placeholder pushed for a subdirectory (scanner.ts:236..242); one at
\* maxDepth is marked truncated as its fillNode starts (scanner.ts:203..204).
Placeholder(dir, depth, maxDepth, e) ==
  [DirNode(Append(dir, e.name)) EXCEPT !.truncated = (depth + 1 >= maxDepth)]

RECURSIVE PushPlaceholders(_, _, _, _, _, _)
PushPlaceholders(root, dir, depth, maxDepth, es, n) ==
  IF n = 0 THEN root
  ELSE LET r == PushPlaceholders(root, dir, depth, maxDepth, es, n - 1)
       IN IF ~isSymbolicLink(es[n]) /\ isDirectory(es[n])
          THEN PushChild(r, dir, Placeholder(dir, depth, maxDepth, es[n]))
          ELSE r

\* The count with the symbolic links counted too.
CountSubdirs_CountsLinks(es) ==
  Cardinality({i \in 1..Len(es) : ~isFile(es[i])})

\* for (const entry of entries) if (!symlink && directory) dirsFound++
CountSubdirs(es) ==
  Cardinality({i \in 1..Len(es) :
                 ~isSymbolicLink(es[i]) /\ isDirectory(es[i])})

RECURSIVE acquireRange(_, _, _, _, _)
\* The acquireSlot calls of the new calls lo..hi, in order; a du call
\* (fastDirSize, scanner.ts:305..315) is made without one.
acquireRange(a, q, new, lo, hi) ==
  IF lo > hi THEN [active |-> a, queue |-> q, ops |-> {}]
  ELSE IF lo = hi
  THEN LET o == new[lo]
       IN IF o.kind = "du"
          THEN [active |-> a, queue |-> q,
                ops |-> {[o EXCEPT !.st = "inflight"]}]
          ELSE LET r == acquireSlot(a, q, OpId(o))
               IN [active |-> r.active, queue |-> r.queue,
                   ops |-> {[o EXCEPT !.slot = r.granted,
                               !.st = IF r.granted THEN "inflight"
                                      ELSE "waiting"]}]
  ELSE LET mid == (lo + hi) \div 2
           first == acquireRange(a, q, new, lo, mid)
       IN CASE first.active >= 0 ->
            LET second == acquireRange(first.active, first.queue, new,
                                       mid + 1, hi)
            IN [active |-> second.active, queue |-> second.queue,
                ops |-> first.ops \cup second.ops]

\* The acquireSlot calls of the first n new calls, in order.
acquireAll(a, q, new, n) == acquireRange(a, q, new, 1, n)

\* A walker that shows a file whose stat failed, with size zero.
Continue_KeepsFailedStat(S, o, ok, maxDepth) ==
  LET es == FsEntries(o.path)
      new == EntryOps(o.sid, o.path, o.depth, maxDepth, es, Len(es))
  IN CASE o.kind = "stat" ->
            [root |-> PushChild(S.root, Parent(o.path),
                        FileNode(o.path, IF ok THEN FsFileSize(o.path)
                                         ELSE 0)),
             prog |-> S.prog, dirty |-> TRUE,
             new |-> <<>>, settled |-> TRUE]
       [] o.kind = "du" ->
            [root |-> SetTruncated(S.root, o.path,
                        fastDirSizeResult(o.path, ok, S.aborted)),
             prog |-> [S.prog EXCEPT !.dirsCompleted = @ + 1],
             dirty |-> TRUE, new |-> <<>>, settled |-> TRUE]
       [] o.kind = "readdir" /\ ~ok ->
            [root |-> S.root,
             prog |-> [S.prog EXCEPT !.dirsCompleted = @ + 1],
             dirty |-> S.dirty, new |-> <<>>, settled |-> TRUE]
       [] o.kind = "readdir" /\ ok /\ S.aborted ->
            [root |-> S.root, prog |-> S.prog, dirty |-> S.dirty,
             new |-> <<>>, settled |-> TRUE]
       [] OTHER ->
            [root |-> PushPlaceholders(SetExpanded(S.root, o.path), o.path,
                        o.depth, maxDepth, es, Len(es)),
             prog |-> [dirsFound |-> S.prog.dirsFound + CountSubdirs(es),
                       dirsCompleted |-> S.prog.dirsCompleted
                         + (IF new = <<>> THEN 1 ELSE 0)],
             dirty |-> (S.dirty \/ CountSubdirs(es) > 0 \/ new = <<>>),
             new |-> new, settled |-> (new = <<>>)]

\* What the return of call o does to its walker, up to the next await
\* (scanner.ts:203..266): S is the scan, ok whether the call succeeded.
\*   new      the calls made for the entries of a listing, in order
\*   settled  whether the promise of o's entry (its fillNode or its file
\*            callback) settles in this turn
Continue(S, o, ok, maxDepth) ==
  LET es == FsEntries(o.path)
      new == EntryOps(o.sid, o.path, o.depth, maxDepth, es, Len(es))
  IN CASE o.kind = "stat" ->
            [root |-> IF ok THEN PushChild(S.root, Parent(o.path),
                                   FileNode(o.path, FsFileSize(o.path)))
                      ELSE S.root,
             prog |-> S.prog, dirty |-> (S.dirty \/ ok),
             new |-> <<>>, settled |-> TRUE]
       [] o.kind = "du" ->
            [root |-> SetTruncated(S.root, o.path,
                        fastDirSizeResult(o.path, ok, S.aborted)),
             prog |-> [S.prog EXCEPT !.dirsCompleted = @ + 1],
             dirty |-> TRUE, new |-> <<>>, settled |-> TRUE]
       [] o.kind = "readdir" /\ ~ok ->
            [root |-> S.root,
             prog |-> [S.prog EXCEPT !.dirsCompleted = @ + 1],
             dirty |-> S.dirty, new |-> <<>>, settled |-> TRUE]
       [] o.kind = "readdir" /\ ok /\ S.aborted ->
            [root |-> S.root, prog |-> S.prog, dirty |-> S.dirty,
             new |-> <<>>, settled |-> TRUE]
       [] OTHER ->
            [root |-> PushPlaceholders(SetExpanded(S.root, o.path), o.path,
                        o.depth, maxDepth, es, Len(es)),
             prog |-> [dirsFound |-> S.prog.dirsFound + CountSubdirs(es),
                       dirsCompleted |-> S.prog.dirsCompleted
                         + (IF new = <<>> THEN 1 ELSE 0)],
             dirty |-> (S.dirty \/ CountSubdirs(es) > 0 \/ new = <<>>),
             new |-> new, settled |-> (new = <<>>)]

\* Promise.all of the root's entries never resolving.
Resolved_NotTheRoot(S, p, left) ==
  {k \in Len(S.path) + 1..Len(p) - 1 :
     \A o \in left : ~IsPrefix(SubSeq(p, 1, k), o.path)}

\* The directories whose Promise.all resolves once the promise of the entry
\* at path p has settled: the ancestors of p in the scan with no call of the
\* scan left beneath them (scanner.ts:263..265).
Resolved(S, p, left) ==
  {k \in Len(S.path)..Len(p) - 1 :
     \A o \in left : ~IsPrefix(SubSeq(p, 1, k), o.path)}

\* A walker that counts only the directory of the entry that settled last.
Cascade_CountsOne(S, c, o, left) ==
  LET done == IF c.settled THEN Resolved(S, o.path, left) ELSE {}
  IN [root |-> c.root,
      prog |-> [c.prog EXCEPT !.dirsCompleted =
                  @ + IF done = {} THEN 0 ELSE 1],
      dirty |-> (c.dirty \/ done # {}),
      over |-> (c.settled /\ (o.path = S.path \/ Len(S.path) \in done))]

\* scanner.ts:263..265 for each of them, and whether fillNode(root) is over.
Cascade(S, c, o, left) ==
  LET done == IF c.settled THEN Resolved(S, o.path, left) ELSE {}
  IN [root |-> c.root,
      prog |-> [c.prog EXCEPT !.dirsCompleted = @ + Cardinality(done)],
      dirty |-> (c.dirty \/ done # {}),
      over |-> (c.settled /\ (o.path = S.path \/ Len(S.path) \in done))]


\* ----------------------------------------------------------- coordinator
\* SpecWalk: the call of a scan that returned last, and whether it
\* succeeded.
Returned(o, ok) == [path |-> o.path, kind |-> o.kind, ok |-> ok]
NoReturn == [path |-> <<>>, kind |-> "none", ok |-> TRUE]

\* A record made for a new scan that keeps what the record it replaces
\* had stored.
NewScan_Inherits(dirPath) ==
  [path |-> dirPath, aborted |-> FALSE,
   tree |-> IF activeScan # 0 THEN scans[activeScan].tree ELSE NoNode,
   progress |-> IF activeScan # 0 THEN scans[activeScan].progress
                ELSE NullProgress,
   done |-> FALSE, error |-> "",
   root |-> DirNode(dirPath),
   prog |-> [dirsFound |-> 1, dirsCompleted |-> 0],
   dirty |-> FALSE, timer |-> TRUE, failed |-> FALSE, du |-> NoRun,
   last |-> NoReturn]

\* The ActiveScan record startBackgroundScan makes (server.ts:42..51) with
\* the locals of the scanDirectoryStreaming call it starts
\* (scanner.ts:154..171).  tree = NoNode and error = "" stand for null.
NewScan(dirPath) ==
  [path |-> dirPath, aborted |-> FALSE, tree |-> NoNode,
   progress |-> NullProgress, done |-> FALSE, error |-> "",
   root |-> DirNode(dirPath),
   prog |-> [dirsFound |-> 1, dirsCompleted |-> 0],
   dirty |-> FALSE, timer |-> TRUE, failed |-> FALSE, du |-> NoRun,
   last |-> NoReturn]

\* needsNew that never retries a failed scan.
needsNew_NoRetry(resolved) ==
  \/ activeScan = 0
  \/ scans[activeScan].path # resolved

\* server.ts:134..137
needsNew(resolved) ==
  \/ activeScan = 0
  \/ scans[activeScan].path # resolved
  \/ (scans[activeScan].done /\ scans[activeScan].error # "")

\* A ScanEvent (server.ts:25..28) of the scan sid: progress events carry
\* tree and progress, done events tree, error events error.
Event(type, sid, tree, progress, error) ==
  [type |-> type, sid |-> sid, tree |-> tree, progress |-> progress,
   error |-> error]

\* A progress event without the counters.
ProgressEvent_NoCounters(S, sid) ==
  Event("progress", sid, S.tree, NullProgress, "")

ProgressEvent(S, sid) == Event("progress", sid, S.tree, S.progress, "")
DoneEvent(S, sid) == Event("done", sid, S.tree, NullProgress, "")
ErrorEvent(S, sid) == Event("error", sid, NoNode, NullProgress, S.error)

\* What a response stream has no event of yet.
NoEvent == Event("none", 0, NoNode, NullProgress, "")

\* send(ev) on the stream sub (server.ts:147..153).  The stream keeps the
\* type and scan of every event it was sent, consecutive progress events of
\* one scan once, and in sent the whole of the event the last step wrote to
\* it, if any.
Deliver(sub, ev) ==
  LET entry == [type |-> ev.type, sid |-> ev.sid]
  IN [sub EXCEPT
        !.events = IF @ # <<>> /\ @[Len(@)] = entry /\ ev.type = "progress"
                   THEN @ ELSE Append(@, entry),
        !.sent = ev]

RECURSIVE DeliverAll(_, _, _)
DeliverAll(sub, evs, n) ==
  IF n = 0 THEN sub ELSE Deliver(DeliverAll(sub, evs, n - 1), evs[n])

\* The streams at the start of a step: nothing written yet.
Quiet(ss) == [i \in 1..Len(ss) |-> [ss[i] EXCEPT !.sent = NoEvent]] \o <<>>

\* A response of /api/scan: the stream of a subscriber for path, opened
\* while sid was the active scan, or an error response.
Stream(path, sid, status) ==
  [path |-> path, scan |-> sid, status |-> status, events |-> <<>>,
   sent |-> NoEvent, open |-> status = 200, gone |-> FALSE]

Terminal == {"done", "error"}

\* A listener that stays registered after a terminal event.
ListenersAfter_Keep(ls, ev) == ls

\* The listeners left after ev was broadcast: a listener sent done or error
\* deletes itself (server.ts:172..176).
ListenersAfter(ls, ev) == IF ev.type \in Terminal THEN {} ELSE ls

\* broadcast that calls only the listener registered last.
broadcast_ToLatest(ss, ls, ev) ==
  [i \in 1..Len(ss) |->
     IF i \in ls /\ \A j \in ls : j <= i
     THEN [Deliver(ss[i], ev) EXCEPT
             !.open = (i \in ListenersAfter(ls, ev))]
     ELSE ss[i]] \o <<>>

\* broadcast (server.ts:32..34) of ev to the listeners ls; a listener that
\* is sent done or error closes its stream (server.ts:170..177).
broadcast(ss, ls, ev) ==
  [i \in 1..Len(ss) |->
     IF i \in ls
     THEN [Deliver(ss[i], ev) EXCEPT
             !.open = (i \in ListenersAfter(ls, ev))]
     ELSE ss[i]] \o <<>>

\* The abort listeners of the du calls of scan S (scanner.ts:313..314): each
\* kills its subprocess and rejects, so its fastDirSize returns 0 and its
\* fillNode goes on from scanner.ts:205.  dus is the set of those calls,
\* left the other calls of the scan.
RECURSIVE AbortDus(_, _, _)
AbortDus(S, dus, left) ==
  IF dus = {} THEN S
  ELSE LET o == CHOOSE x \in dus : TRUE
           c == Continue(S, o, FALSE, MAX_DEPTH)
           k == Cascade(S, c, o, left \cup (dus \ {o}))
       IN AbortDus([S EXCEPT !.root = k.root, !.prog = k.prog,
                      !.dirty = k.dirty,
                      !.timer = @ /\ ~k.over],
                   dus \ {o}, left)

ScanOps(sid) == {o \in ops : o.sid = sid}

\* abort.abort() that leaves the signal unset.
Abort_NoSignal(sid) == scans[sid]

\* abort.abort() on the scan sid (server.ts:38..40)
Abort(sid) ==
  LET dus == {o \in ScanOps(sid) : o.kind = "du"}
  IN AbortDus([scans[sid] EXCEPT !.aborted = TRUE], dus,
              ScanOps(sid) \ dus)

\* A scan that is no longer the active record: it finished, or its signal
\* is set.  Nothing reads what its record and its walker hold any more: the
\* record is reachable only from callbacks that write, the timer callback
\* returns at scanner.ts:166 and the final snapshot is skipped at
\* scanner.ts:175.  Its trees, counters and dirty flag are dropped from the
\* state; its flags and its outstanding calls are kept.  The same goes for
\* the record of a scan that failed: a request reads its path, done and
\* error and replaces it (server.ts:134..141) before any stream looks at
\* its tree.
Collect(S) ==
  [S EXCEPT !.tree = NoNode, !.progress = NullProgress,
            !.root = NoNode, !.prog = NullProgress, !.dirty = FALSE,
            !.failed = FALSE, !.du = NoRun]

\* startBackgroundScan that leaves the previous scan running.
startBackgroundScan_NoAbort(dirPath) ==
  Append(IF activeScan # 0
         THEN [scans EXCEPT ![activeScan] = Collect(scans[activeScan])]
         ELSE scans,
         NewScan(dirPath))

\* The scans after startBackgroundScan(dirPath) (server.ts:36..51)
startBackgroundScan(dirPath) ==
  Append(IF activeScan # 0
         THEN [scans EXCEPT ![activeScan] =
                 Collect(IF ~scans[activeScan].done
                         THEN Abort(activeScan)
                         ELSE scans[activeScan])]
         ELSE scans,
         NewScan(dirPath))

\* A stream start that sends a finished scan's tree as progress.
FirstEvents_NoDone(S, sid) ==
  IF S.tree # NoNode THEN <<ProgressEvent(S, sid)>> ELSE <<>>

\* What the start of a response stream sends at once (server.ts:155..167),
\* S being the active scan.
FirstEvents(S, sid) ==
  IF S.tree # NoNode
  THEN IF S.done THEN <<DoneEvent(S, sid)>> ELSE <<ProgressEvent(S, sid)>>
  ELSE <<>>

\* GET /api/scan?path=resolved for a path that is a directory
\* (server.ts:87..208).
Request(resolved) ==
  /\ requests < MaxRequests
  /\ requests' = requests + 1
  /\ \E r \in {LET new == needsNew(resolved)
         ss == IF new THEN startBackgroundScan(resolved) ELSE scans
         sid == IF new THEN Len(ss) ELSE activeScan
         rootOp == Op(sid, resolved, "readdir", 0)
         acq == IF new THEN acquireAll(active, queue, <<rootOp>>, 1)
                ELSE [active |-> active, queue |-> queue, ops |-> {}]
         first == FirstEvents(ss[sid], sid)
         closed == ss[sid].tree # NoNode /\ ss[sid].done
         IN
           [scans |-> ss,
            activeScan |-> sid,
            active |-> acq.active,
            queue |-> acq.queue,
            ops |-> {o \in ops :
                       new => ~(o.sid = activeScan /\ o.kind = "du")}
                    \cup acq.ops,
            subs |-> Append(Quiet(subs),
                       [DeliverAll(Stream(resolved, sid, 200), first,
                                   Len(first))
                          EXCEPT !.open = ~closed]),
            sseListeners |-> IF closed THEN sseListeners
                             ELSE sseListeners \cup {Len(subs) + 1}]} :
          /\ scans' = r.scans
          /\ activeScan' = r.activeScan
          /\ active' = r.active
          /\ queue' = r.queue
          /\ ops' = r.ops
          /\ subs' = r.subs
          /\ sseListeners' = r.sseListeners
  /\ oneShot' = NoCall
  /\ UNCHANGED <<callerVars, snapVars>>

\* The responses of /api/scan to a request it rejects (server.ts:91..126):
\* 400 for a missing path, a path that is not a directory or that cannot be
\* accessed, 404 for a path not found, 403 for a permission error.
Rejections == {400, 403, 404}

\* A rejected request whose handler goes on to subscribe all the same.
RequestRejected_Subscribes(status) ==
  /\ requests < MaxRequests
  /\ requests' = requests + 1
  /\ subs' = Append(Quiet(subs), Stream(<<>>, 0, status))
  /\ sseListeners' = sseListeners \cup {Len(subs) + 1}
  /\ oneShot' = NoCall
  /\ UNCHANGED <<limVars, callerVars, snapVars, scans, activeScan, ops>>

\* GET /api/scan for a path that is missing or does not name a directory
\* that can be read (server.ts:87..126): an error response, returned before
\* the handler looks at activeScan.
RequestRejected(status) ==
  /\ requests < MaxRequests
  /\ requests' = requests + 1
  /\ subs' = Append(Quiet(subs), Stream(<<>>, 0, status))
  /\ oneShot' = NoCall
  /\ UNCHANGED <<limVars, callerVars, snapVars, scans, activeScan, ops,
                 sseListeners>>

\* The interval callback of scan sid finding work to do
\* (scanner.ts:165..171) and the onProgress it calls (server.ts:57..61).
Tick(sid) ==
  /\ scans[sid].timer
  /\ ~scans[sid].aborted
  /\ scans[sid].dirty
  /\ \E S \in {[scans[sid] EXCEPT !.dirty = FALSE,
                                   !.tree = snapshot(scans[sid].root),
                                   !.progress = scans[sid].prog]} :
       /\ scans' = [scans EXCEPT ![sid] = S]
       /\ subs' = broadcast(Quiet(subs), sseListeners,
                            ProgressEvent(S, sid))
  /\ oneShot' = NoCall
  /\ UNCHANGED <<limVars, callerVars, snapVars, activeScan, ops,
                 sseListeners, requests>>

\* fillNode(root) being over settles the promise of scanDirectoryStreaming
\* whether or not the signal is set.
Settles_IgnoresAbort(S, over) == over

\* Whether the promise of scanDirectoryStreaming settles with something
\* other than an AbortError once fillNode(root) is over (scanner.ts:174..176,
\* server.ts:71).
Settles(S, over) == over /\ ~S.aborted

\* The filesystem call o returns, successfully or not, and its walker runs
\* on to its next await: withSlot releases (scanner.ts:45..47), fillNode
\* continues (scanner.ts:205..266), and when fillNode(root) is over the scan
\* ends (scanner.ts:175..180): with the final snapshot (server.ts:64..69),
\* or, thrown, with the exception the final snapshot raised
\* (server.ts:70..76).
OpReturn(o, ok, thrown) ==
  /\ o.st = "inflight"
  /\ \E r \in {LET S == scans[o.sid]
         rel == withSlotFinally(active, queue, o.slot, ok)
         c == Continue(S, o, ok, MAX_DEPTH)
         acq == acquireAll(rel.active, rel.queue, c.new, Len(c.new))
         rest == {IF <<OpId(x)>> = rel.resumed
                  THEN [x EXCEPT !.st = "inflight", !.slot = TRUE]
                  ELSE x : x \in ops \ {o}}
         left == {x \in rest : x.sid = o.sid} \cup acq.ops
         k == Cascade(S, c, o, left)
         finished == Settles(S, k.over)
         T == [S EXCEPT
                 !.root = k.root, !.prog = k.prog, !.dirty = k.dirty,
                 !.timer = ~k.over,
                 !.failed = @ \/ ~ok,
                 !.tree = IF finished /\ ~thrown THEN snapshot(k.root) ELSE @,
                 !.done = @ \/ finished,
                 !.progress = IF finished /\ ~thrown THEN NullProgress ELSE @,
                 !.error = IF finished /\ thrown THEN "RangeError" ELSE @]
         ev == IF thrown THEN ErrorEvent(T, o.sid) ELSE DoneEvent(T, o.sid)
         IN
           [settles |-> finished,
            active |-> acq.active,
            queue |-> acq.queue,
            ops |-> rest \cup acq.ops,
            scans |-> [scans EXCEPT ![o.sid] =
                         IF o.sid # activeScan \/ (finished /\ thrown)
                         THEN Collect(T) ELSE T],
            subs |-> IF finished
                     THEN broadcast(Quiet(subs), sseListeners, ev)
                     ELSE Quiet(subs),
            sseListeners |-> IF finished THEN ListenersAfter(sseListeners, ev)
                             ELSE sseListeners]} :
          /\ thrown => r.settles
          /\ active' = r.active
          /\ queue' = r.queue
          /\ ops' = r.ops
          /\ scans' = r.scans
          /\ subs' = r.subs
          /\ sseListeners' = r.sseListeners
  /\ oneShot' = NoCall
  /\ UNCHANGED <<callerVars, snapVars, activeScan, requests>>

\* A disconnect that clears the listener set.
Unsubscribe_All(ls, i) == {}

\* sseListeners.delete(listener) (server.ts:192), listener being that of
\* the stream i.
Unsubscribe(ls, i) == ls \ {i}

\* The streams whose client went away.
Gone == {i \in 1..Len(subs) : subs[i].status = 200 /\ subs[i].gone}

\* The client of the stream i goes away, once, while its listener is
\* registered (server.ts:189..198): the listener is deleted and the stream
\* closed.
Disconnect(i) ==
  /\ Cardinality(Gone) < MaxDisconnects
  /\ subs[i].open
  /\ sseListeners' = Unsubscribe(sseListeners, i)
  /\ subs' = [Quiet(subs) EXCEPT ![i].open = FALSE, ![i].gone = TRUE]
  /\ oneShot' = NoCall
  /\ UNCHANGED <<limVars, callerVars, snapVars, scans, activeScan, ops,
                 requests>>


\* ------------------------------------------------------- one-shot walker
RECURSIVE scanDirectory(_, _, _, _)
\* scanEntry returning a node of size 0 for a file whose stat failed.
scanEntry_KeepsFailedFile(dirPath, maxDepth, depth, failing, entry) ==
  LET fullPath == Append(dirPath, entry.name)
  IN IF isSymbolicLink(entry) THEN <<>>
     ELSE IF isDirectory(entry)
          THEN <<scanDirectory(fullPath, maxDepth, depth + 1, failing)>>
          ELSE IF isFile(entry)
               THEN <<FileNode(fullPath, IF fullPath \in failing THEN 0
                                         ELSE FsFileSize(fullPath))>>
               ELSE <<>>

\* The child a directory entry resolves to in scanDirectory
\* (scanner.ts:78..109), as a list: empty for null.  failing is the set of
\* paths whose filesystem call fails.
scanEntry(dirPath, maxDepth, depth, failing, entry) ==
  LET fullPath == Append(dirPath, entry.name)
  IN IF isSymbolicLink(entry) THEN <<>>
     ELSE IF isDirectory(entry)
          THEN <<scanDirectory(fullPath, maxDepth, depth + 1, failing)>>
          ELSE IF isFile(entry) /\ fullPath \notin failing
               THEN <<FileNode(fullPath, FsFileSize(fullPath))>>
               ELSE <<>>

RECURSIVE scanEntries(_, _, _, _, _, _)
\* (await Promise.all(childPromises)).filter(c => c !== null), first n
scanEntries(dirPath, maxDepth, depth, failing, es, n) ==
  IF n = 0 THEN <<>>
  ELSE scanEntries(dirPath, maxDepth, depth, failing, es, n - 1)
       \o scanEntry(dirPath, maxDepth, depth, failing, es[n])

\* scanDirectory that folds entries from the depth after CHILD_LIMIT_DEPTH.
scanDirectory_CapsDeeper(dirPath, maxDepth, depth, failing) ==
  IF depth >= maxDepth
  THEN [DirNode(dirPath) EXCEPT
          !.truncated = TRUE,
          !.size = fastDirSizeResult(dirPath, dirPath \notin failing, FALSE)]
  ELSE IF dirPath \in failing THEN DirNode(dirPath)
  ELSE LET es == FsEntries(dirPath)
           children == SortBySizeDesc(
             scanEntries(dirPath, maxDepth, depth, failing, es, Len(es)))
           capped ==
             IF depth > CHILD_LIMIT_DEPTH /\ Len(children) > MAX_CHILDREN
             THEN LET kept == SubSeq(children, 1, MAX_CHILDREN)
                      droppedSize == SumSizes(
                        SubSeq(children, MAX_CHILDREN + 1, Len(children)))
                  IN IF droppedSize > 0
                     THEN Append(kept, OtherNode(dirPath,
                            Len(children) - MAX_CHILDREN, droppedSize))
                     ELSE kept
             ELSE children
       IN [DirNode(dirPath) EXCEPT !.hasChildren = TRUE,
             !.children = capped, !.size = SumSizes(capped)]

\* scanner.ts:51..137
scanDirectory(dirPath, maxDepth, depth, failing) ==
  IF depth >= maxDepth
  THEN [DirNode(dirPath) EXCEPT
          !.truncated = TRUE,
          !.size = fastDirSizeResult(dirPath, dirPath \notin failing, FALSE)]
  ELSE IF dirPath \in failing THEN DirNode(dirPath)
  ELSE LET es == FsEntries(dirPath)
           children == SortBySizeDesc(
             scanEntries(dirPath, maxDepth, depth, failing, es, Len(es)))
           capped ==
             IF depth >= CHILD_LIMIT_DEPTH /\ Len(children) > MAX_CHILDREN
             THEN LET kept == SubSeq(children, 1, MAX_CHILDREN)
                      droppedSize == SumSizes(
                        SubSeq(children, MAX_CHILDREN + 1, Len(children)))
                  IN IF droppedSize > 0
                     THEN Append(kept, OtherNode(dirPath,
                            Len(children) - MAX_CHILDREN, droppedSize))
                     ELSE kept
             ELSE children
       IN [DirNode(dirPath) EXCEPT !.hasChildren = TRUE,
             !.children = capped, !.size = SumSizes(capped)]

\* The depths scanDirectory is called with, and the paths whose calls can
\* fail during it.
OneShotDepths == {1, DEFAULT_MAX_DEPTH}
OneShotFailing == SUBSET {<<"a", "d">>, <<"a", "d", "g">>}

\* A call of scanDirectory(dirPath, maxDepth) run to its end, made while no
\* walker has a call outstanding.
ScanDirectory(dirPath, maxDepth, failing) ==
  /\ ops = {}
  /\ oneShot = NoCall
  /\ oneShot' = [tree |-> scanDirectory(dirPath, maxDepth, 0, failing),
                 maxDepth |-> maxDepth, failing |-> failing]
  /\ subs' = Quiet(subs)
  /\ UNCHANGED <<limVars, callerVars, snapVars, scans, activeScan, ops,
                 sseListeners, requests>>

\* ------------------------------------------------------------------ Spec
Init ==
  /\ LimIdle /\ CallersIdle /\ SnapIdle /\ ScanIdle

Next ==
  \/ \E p \in ScanPaths : Request(p)
  \/ \E status \in Rejections : RequestRejected(status)
  \/ \E sid \in 1..Len(scans) : Tick(sid)
  \/ \E o \in ops : \E ok \in Outcomes(o.path), thrown \in BOOLEAN :
       OpReturn(o, ok, thrown)
  \/ \E p \in ScanPaths, d \in OneShotDepths, f \in OneShotFailing :
       ScanDirectory(p, d, f)

Spec == Init /\ [][Next]_vars

\* ---------------------------------------------------------------- SpecGone
\* Scans of one path whose subscribers may go away.
NextGone ==
  \/ Request(<<"a">>)
  \/ \E sid \in 1..Len(scans) : Tick(sid)
  \/ \E o \in ops : \E ok \in Outcomes(o.path), thrown \in BOOLEAN :
       OpReturn(o, ok, thrown)
  \/ \E i \in 1..Len(subs) : Disconnect(i)

SpecGone == Init /\ [][NextGone]_vars


\* ----------------------------------------------------------------- SpecOne
\* Calls of the exported scanDirectory alone, over the whole fixture.
OneShotRoots == {<<"a">>, <<"a", "d">>, <<"w">>, <<"w", "x">>,
                 <<"w", "x", "y">>}
OneShotMaxDepths == {0, 1, 2, DEFAULT_MAX_DEPTH}

\* The paths whose calls can fail during a one-shot walk of root: the walk's
\* own listing, a file and a directory of /a, a file and the wide directory
\* of /w.
OneShotFlaky(root) ==
  {p \in {root, <<"a", "d">>, <<"a", "d", "g">>, <<"w", "x", "k">>,
          <<"w", "x", "y">>, <<"w", "x", "y", "e1">>} : IsPrefix(root, p)}

\* The caller takes the tree it was handed.
OneShotTaken ==
  /\ oneShot # NoCall
  /\ oneShot' = NoCall
  /\ UNCHANGED <<limVars, callerVars, snapVars, scans, activeScan, ops,
                 sseListeners, subs, requests>>

NextOne ==
  \/ \E p \in OneShotRoots, d \in OneShotMaxDepths :
       \E f \in SUBSET OneShotFlaky(p) : ScanDirectory(p, d, f)
  \/ OneShotTaken

SpecOne == Init /\ [][NextOne]_vars

\* ---------------------------------------------------------------- SpecWalk
\* One call of scanDirectoryStreaming seen from its caller, who holds the
\* signal, while calls of other users of the limiter (the exported
\* scanDirectory, scanner.ts:72 and 94) hold some of its slots: running
\* counts those.  The scan record stands for the locals of the call and for
\* what its caller was handed; nobody is subscribed.
ForeignLoads == {0, MAX_CONCURRENT}

WalkInit ==
  /\ \E n \in ForeignLoads : active = n /\ running = n
  /\ queue = <<>>
  /\ arrivals = 0 /\ grants = 0 /\ lastGrant = 0
  /\ SnapIdle /\ ScanIdle

\* scanDirectoryStreaming whose fillNode lists the root whatever the signal
\* says.
WalkStart_IgnoresSignal(dirPath, preset) ==
  /\ scans = <<>>
  /\ \E r \in {LET acq == acquireAll(active, queue,
                            <<Op(1, dirPath, "readdir", 0)>>, 1)
               IN [scan |-> [NewScan(dirPath) EXCEPT !.aborted = preset],
                   active |-> acq.active,
                   queue |-> acq.queue, ops |-> acq.ops]} :
       /\ scans' = <<r.scan>>
       /\ active' = r.active
       /\ queue' = r.queue
       /\ ops' = r.ops
  /\ activeScan' = 1
  /\ UNCHANGED <<callerVars, snapVars, sseListeners, subs, requests, oneShot>>

\* scanDirectoryStreaming(dirPath, MAX_DEPTH, onProgress, signal) up to its
\* first await (scanner.ts:154..174, 201..213); preset says whether the
\* signal is set already, in which case fillNode returns at once and the
\* call is over (scanner.ts:201, 175, 179).
WalkStart(dirPath, preset) ==
  /\ scans = <<>>
  /\ \E r \in {LET acq == acquireAll(active, queue,
                            <<Op(1, dirPath, "readdir", 0)>>, 1)
               IN IF preset
                  THEN [scan |-> [NewScan(dirPath) EXCEPT !.aborted = TRUE,
                                                          !.timer = FALSE],
                        active |-> active, queue |-> queue, ops |-> {}]
                  ELSE [scan |-> NewScan(dirPath), active |-> acq.active,
                        queue |-> acq.queue, ops |-> acq.ops]} :
       /\ scans' = <<r.scan>>
       /\ active' = r.active
       /\ queue' = r.queue
       /\ ops' = r.ops
  /\ activeScan' = 1
  /\ UNCHANGED <<callerVars, snapVars, sseListeners, subs, requests, oneShot>>

\* The filesystem call o ends with run and its walker runs on to its next
\* await (scanner.ts:45..47, 205..266); when fillNode(root) is over the
\* timer is cleared and, the signal unset, the caller is handed the final
\* snapshot (scanner.ts:175..180).
WalkReturn(o, run) ==
  /\ o.st = "inflight"
  /\ \E r \in {LET S == scans[o.sid]
                   ok == RunOk(o, run)
                   rel == withSlotFinally(active, queue, o.slot, ok)
                   c == Continue(S, o, ok, MAX_DEPTH)
                   acq == acquireAll(rel.active, rel.queue, c.new, Len(c.new))
                   rest == {IF <<OpId(x)>> = rel.resumed
                            THEN [x EXCEPT !.st = "inflight", !.slot = TRUE]
                            ELSE x : x \in ops \ {o}}
                   k == Cascade(S, c, o, rest \cup acq.ops)
                   finished == Settles(S, k.over)
               IN [active |-> acq.active, queue |-> acq.queue,
                   ops |-> rest \cup acq.ops,
                   scan |-> [S EXCEPT
                     !.root = k.root, !.prog = k.prog, !.dirty = k.dirty,
                     !.timer = ~k.over,
                     !.failed = @ \/ ~ok,
                     !.du = IF o.kind = "du" THEN run ELSE @,
                     !.last = Returned(o, ok),
                     !.tree = IF finished THEN snapshot(k.root) ELSE @,
                     !.progress = IF finished THEN NullProgress ELSE @,
                     !.done = finished]]} :
       /\ active' = r.active
       /\ queue' = r.queue
       /\ ops' = r.ops
       /\ scans' = [scans EXCEPT ![o.sid] = r.scan]
  /\ UNCHANGED <<callerVars, snapVars, activeScan, sseListeners, subs,
                 requests, oneShot>>

\* The caller sets the signal of the running scan: the subprocesses of its
\* du calls are killed and their walkers go on (scanner.ts:313, 319, 206).
WalkCancel ==
  /\ scans # <<>>
  /\ scans[1].timer /\ ~scans[1].aborted
  /\ scans' = [scans EXCEPT ![1] = Abort(1)]
  /\ ops' = {o \in ops : o.kind # "du"}
  /\ UNCHANGED <<limVars, callerVars, snapVars, activeScan, sseListeners,
                 subs, requests, oneShot>>

\* The interval callback finding work to do (scanner.ts:165..171); the
\* caller's onProgress keeps what it is handed.
WalkTick ==
  /\ scans # <<>>
  /\ scans[1].timer /\ ~scans[1].aborted /\ scans[1].dirty
  /\ scans' = [scans EXCEPT ![1] =
                 [@ EXCEPT !.dirty = FALSE, !.tree = snapshot(scans[1].root),
                           !.progress = scans[1].prog]]
  /\ UNCHANGED <<limVars, callerVars, snapVars, activeScan, ops,
                 sseListeners, subs, requests, oneShot>>

\* A call of another user of the limiter returns: the finally of its
\* withSlot hands its slot to the oldest waiter, who goes on to make its
\* call (scanner.ts:32..39, 44).
ForeignReturn ==
  /\ running > 0
  /\ running' = running - 1
  /\ \E rel \in {releaseSlot(active, queue)} :
       /\ active' = rel.active
       /\ queue' = rel.queue
       /\ ops' = {IF <<OpId(x)>> = rel.resumed
                  THEN [x EXCEPT !.st = "inflight", !.slot = TRUE]
                  ELSE x : x \in ops}
  /\ UNCHANGED <<arrivals, grants, lastGrant, snapVars, scans, activeScan,
                 sseListeners, subs, requests, oneShot>>

NextWalk ==
  \/ \E p \in ScanPaths, preset \in BOOLEAN : WalkStart(p, preset)
  \/ \E o \in ops : \E run \in CallRuns(o) : WalkReturn(o, run)
  \/ WalkCancel
  \/ WalkTick
  \/ ForeignReturn

SpecWalk == WalkInit /\ [][NextWalk]_vars

\* ------------------------------------------------------- claims on Spec
ScanIds == 1..Len(scans)

\* The scans whose working tree is still in the state.
Tracked == {i \in ScanIds : scans[i].root # NoNode}

SlotHolders == {o \in ops : o.slot}
Waiting == {o \in ops : o.st = "waiting"}

\* C2: every readdir, stat and du call in flight was issued by a caller
\* holding a limiter slot.
C2_EveryCallHoldsSlot ==
  \A o \in ops : o.st = "inflight" => o.slot

\* C3: a slot taken through withSlot is given back when the call returns,
\* whatever its outcome and whether or not its scan was cancelled meanwhile:
\* active counts exactly the calls issued through withSlot that have not
\* returned, the queue holds exactly the suspended callers, and once every
\* such call has returned active is 0 and the queue empty.
C3_SlotsAlwaysReleased ==
  /\ active = Cardinality(SlotHolders)
  /\ Len(queue) = Cardinality(Waiting)
  /\ \A o \in SlotHolders : o.st = "inflight" /\ o.kind # "du"
  /\ ({o \in ops : o.kind # "du"} = {} => active = 0 /\ queue = <<>>)

\* Scan A of /a was cancelled, all its calls have returned since, and the
\* only slot taken is held by a call of the scan B that replaced it.
C3_Witness ==
  \E A \in ScanIds :
    /\ scans[A].aborted /\ scans[A].path = <<"a">>
    /\ ScanOps(A) = {}
    /\ activeScan # A
    /\ active = 1
    /\ \E o \in ScanOps(activeScan) : o.slot

\* Whether p names a symbolic link of the fixture.
IsSymlinkPath(p) ==
  /\ Len(p) > 1
  /\ \E i \in 1..Len(FsEntries(Parent(p))) :
       /\ FsEntries(Parent(p))[i].name = p[Len(p)]
       /\ isSymbolicLink(FsEntries(Parent(p))[i])

\* Every tree the program holds: working trees, published snapshots and the
\* result of the one-shot walk.
AllTrees ==
  {scans[i].root : i \in ScanIds} \cup {scans[i].tree : i \in ScanIds}
    \cup {oneShot.tree}

Directories(t) == {n \in AllNodes(t) : n.type = "directory"}

\* C8: no symbolic link is a node of any working tree, published snapshot
\* or one-shot result; none is listed, stat-ed or sized; and dirsFound
\* counts the root and the subdirectory placeholders only, so a symbolic
\* link to a directory does not increment it.
C8_SymlinksNeverAppear ==
  /\ \A t \in AllTrees : \A n \in AllNodes(t) : ~IsSymlinkPath(n.path)
  /\ \A o \in ops : ~IsSymlinkPath(o.path)
  /\ \A i \in Tracked :
       scans[i].prog.dirsFound = Cardinality(Directories(scans[i].root))

\* The one-shot walk and a streaming scan of /a both ran to the end over
\* its listings, which hold a symbolic link to a directory and one to a
\* file.
C8_Witness ==
  /\ oneShot.tree.path = <<"a">> /\ oneShot.tree.size = 35
  /\ \E i \in ScanIds :
       /\ scans[i].done /\ scans[i].path = <<"a">>
       /\ scans[i].tree.size = 35
       /\ scans[i].prog.dirsFound = 2


\* The depth of node n in a tree rooted at the path rootPath.
DepthIn(n, rootPath) == Len(n.path) - Len(rootPath)

DuPending(sid, p) ==
  \E o \in ops : o.sid = sid /\ o.path = p /\ o.kind = "du"

\* What the size estimator can return for p: 0 when it failed, the bytes of
\* the kilobytes du printed otherwise.
Estimates(p) == {0, FsDuKb(p) * 1024}

\* The directories of tree t, rooted at rootPath, that sit at depth d.
DirsAtDepth(t, rootPath, d) ==
  {n \in Directories(t) : DepthIn(n, rootPath) = d}

\* C9 as stated: every snapshot published after a directory was reached at
\* depth maxDepth gives it the size the estimator returned for it, so when
\* the estimator returns, the last snapshot published, if it shows the
\* directory, already shows it with the returned value.
C9_SnapshotSizeIsEstimate ==
  [][\A i \in Tracked : \A o \in ops \ ops' :
       (o.sid = i /\ o.kind = "du" /\ scans'[i].root # NoNode
        /\ FindNode(scans[i].tree, o.path) # NoNode) =>
         FindNode(scans[i].tree, o.path).size =
           FindNode(scans'[i].root, o.path).size
    ]_vars

\* Nothing is listed at or below maxDepth, no tree reaches below it, and a
\* directory at maxDepth is truncated and childless; its working size is 0
\* until the estimator returns and the estimator's value from then on.
TruncatedInWorkingTree ==
  /\ \A o \in ops : /\ o.depth <= MAX_DEPTH
                    /\ o.kind = "readdir" => o.depth < MAX_DEPTH
                    /\ o.kind = "du" <=> o.depth = MAX_DEPTH
  /\ \A i \in Tracked : \A n \in AllNodes(scans[i].root) :
       /\ DepthIn(n, scans[i].path) <= MAX_DEPTH
       /\ n.truncated => DepthIn(n, scans[i].path) = MAX_DEPTH
       /\ (n.type = "directory" /\ DepthIn(n, scans[i].path) = MAX_DEPTH) =>
            /\ n.truncated /\ ~n.hasChildren /\ n.children = <<>>
            /\ IF DuPending(i, n.path) THEN n.size = 0
               ELSE n.size \in Estimates(n.path)

TruncatedInSnapshot ==
  \A i \in Tracked : \A n \in AllNodes(scans[i].tree) :
    /\ DepthIn(n, scans[i].path) <= MAX_DEPTH
    /\ (n.type = "directory" /\ DepthIn(n, scans[i].path) = MAX_DEPTH) =>
         /\ n.truncated /\ ~n.hasChildren /\ n.children = <<>>
         /\ n.size \in Estimates(n.path)

TruncatedInOneShot ==
  \A n \in AllNodes(oneShot.tree) :
    /\ DepthIn(n, oneShot.tree.path) <= oneShot.maxDepth
    /\ (n.type = "directory"
        /\ DepthIn(n, oneShot.tree.path) = oneShot.maxDepth) =>
         /\ n.truncated /\ ~n.hasChildren /\ n.children = <<>>
         /\ n.size \in Estimates(n.path)

\* A snapshot published in this step gives a directory at maxDepth the size
\* its working node has at that moment.
PublishedSizeIsWorkingSize ==
  \A i \in ScanIds :
    (scans'[i].tree # NoNode /\ scans'[i].tree # scans[i].tree) =>
      \A n \in DirsAtDepth(scans'[i].tree, scans'[i].path, MAX_DEPTH) :
        n.size = FindNode(scans'[i].root, n.path).size

\* C9, amended: a directory reached at depth maxDepth is truncated and
\* never gets a children list, nothing deeper is listed, and a snapshot
\* gives it the size its working node has when the snapshot is taken: 0
\* while the estimator is still running, the estimator's value (0 when it
\* failed) once it has returned.
C9_TruncatedAtMaxDepth ==
  /\ [](TruncatedInWorkingTree /\ TruncatedInSnapshot /\ TruncatedInOneShot)
  /\ [][PublishedSizeIsWorkingSize]_vars

\* A snapshot of a scan of /b shows the directory at depth MAX_DEPTH
\* truncated with the estimator's value, and the one-shot walk returned a
\* truncated directory with the estimator's value as well.
C9_Witness ==
  /\ \E i \in Tracked :
       \E n \in DirsAtDepth(scans[i].tree, scans[i].path, MAX_DEPTH) :
         n.truncated /\ n.size = FsDuKb(n.path) * 1024
  /\ \E n \in AllNodes(oneShot.tree) : n.truncated /\ n.size > 0

\* A scan request being answered with a stream for the path p.
RequestStep(p) ==
  /\ Len(subs') = Len(subs) + 1
  /\ subs'[Len(subs')].status = 200
  /\ subs'[Len(subs')].path = p

\* C10: a request for the path of the active scan while that scan is
\* running starts no walker and cancels nothing; a request for another path
\* sets the cancel signal of the active scan if it is not finished, leaves
\* every other scan alone and starts exactly one walker, for the new path.
C10_RequestStartsAtMostOneScan ==
  [][\A p \in ScanPaths :
       (RequestStep(p) /\ activeScan # 0) =>
         IF scans[activeScan].path = p
         THEN ~scans[activeScan].done =>
                /\ scans' = scans /\ activeScan' = activeScan
                /\ ops' = ops /\ active' = active /\ queue' = queue
         ELSE /\ Len(scans') = Len(scans) + 1
              /\ activeScan' = Len(scans')
              /\ scans'[activeScan'] = NewScan(p)
              /\ scans'[activeScan].aborted =
                   (scans[activeScan].aborted \/ ~scans[activeScan].done)
              /\ scans'[activeScan].done = scans[activeScan].done
              /\ \A i \in ScanIds \ {activeScan} : scans'[i] = scans[i]
              /\ {o \in ops' : o.kind # "du"} \ ops =
                   {[Op(activeScan', p, "readdir", 0) EXCEPT
                       !.slot = TRUE, !.st = "inflight"]}
              /\ ops' \ ops \subseteq {o \in ops' : o.sid = activeScan'}
    ]_vars

\* The scan of one path was cancelled by a request for the other path while
\* it was running, and the walker of the new scan has its first call out.
C10_Witness ==
  /\ Len(scans) = 2 /\ activeScan = 2
  /\ scans[1].aborted /\ ~scans[1].done
  /\ scans[1].path # scans[2].path
  /\ ~scans[2].aborted
  /\ ScanOps(2) = {[Op(2, scans[2].path, "readdir", 0) EXCEPT
                      !.slot = TRUE, !.st = "inflight"]}


\* C12: whatever requests were made, a scan whose cancel signal is unset and
\* which has not finished is the coordinator's active scan record, so there
\* is at most one such scan; every scan that was replaced as the active
\* record has its signal set or has finished.
Live == {i \in ScanIds : ~scans[i].aborted /\ ~scans[i].done}

C12_OnlyActiveScanIsLive ==
  /\ Live \subseteq {activeScan}
  /\ \A i \in ScanIds \ {activeScan} : scans[i].aborted \/ scans[i].done

\* A scan replaced while running, and its successor running.
C12_Witness ==
  /\ Len(scans) >= 2
  /\ scans[1].aborted /\ ~scans[1].done
  /\ ScanOps(1) # {}
  /\ Live = {2}


\* The stream opened by the request of this step.
NewStream == subs'[Len(subs')]

\* C11: a request for the path of the active scan, that scan having
\* finished: if it finished with an error a fresh scan of the path is
\* started and becomes the active record; if it finished successfully no
\* scan is started and nothing is cancelled, and the requester is attached
\* to the completed state, being sent done with the final tree.
C11_RetryOnlyAfterError ==
  [][\A p \in ScanPaths :
       (/\ RequestStep(p) /\ activeScan # 0
        /\ scans[activeScan].path = p /\ scans[activeScan].done) =>
         IF scans[activeScan].error # ""
         THEN /\ Len(scans') = Len(scans) + 1
              /\ activeScan' = Len(scans')
              /\ scans'[activeScan'] = NewScan(p)
              /\ ops' \ ops = {[Op(activeScan', p, "readdir", 0) EXCEPT
                                  !.slot = TRUE, !.st = "inflight"]}
              /\ NewStream.scan = activeScan' /\ NewStream.events = <<>>
         ELSE /\ scans' = scans /\ activeScan' = activeScan
              /\ ops' = ops /\ active' = active /\ queue' = queue
              /\ NewStream.scan = activeScan
              /\ NewStream.events = <<[type |-> "done", sid |-> activeScan]>>
              /\ NewStream.sent.tree = scans[activeScan].tree
    ]_vars

\* A scan that ended with an error, retried by a second request for its
\* path.
C11_Witness ==
  /\ Len(scans) = 2 /\ activeScan = 2
  /\ scans[1].path = scans[2].path
  /\ scans[1].done /\ scans[1].error # "" /\ ~scans[1].aborted
  /\ ScanOps(2) # {}
  /\ Len(subs) = 2 /\ subs[2].scan = 2


\* C13: a request for the path of the active scan, that scan having
\* finished successfully, is sent done with the final tree at once and
\* nothing else: no progress event, its listener is never registered, and
\* its stream, closed from the start, is never written to again.
AttachedToFinished(i) ==
  subs[i].events # <<>> /\ subs[i].events[1].type = "done"
  /\ subs[i].events[1].sid = subs[i].scan

C13_FinishedScanAnswersDoneOnly ==
  [][/\ \A p \in ScanPaths :
          (/\ RequestStep(p) /\ activeScan # 0
           /\ scans[activeScan].path = p
           /\ scans[activeScan].done /\ scans[activeScan].error = "") =>
            /\ NewStream.events = <<[type |-> "done", sid |-> activeScan]>>
            /\ NewStream.sent = DoneEvent(scans[activeScan], activeScan)
            /\ NewStream.sent.tree = snapshot(scans[activeScan].root)
            /\ ~NewStream.open
            /\ sseListeners' = sseListeners
            /\ Len(subs') \notin sseListeners'
     /\ \A i \in 1..Len(subs) :
          AttachedToFinished(i) =>
            /\ subs'[i].events = subs[i].events
            /\ subs'[i].sent = NoEvent
            /\ ~subs'[i].open /\ i \notin sseListeners'
    ]_vars

\* The second subscriber attached after the scan of its path had finished,
\* the first having followed the scan to its end.
C13_Witness ==
  /\ Len(scans) = 1 /\ scans[1].done /\ scans[1].error = ""
  /\ Len(subs) = 2
  /\ subs[1].events[Len(subs[1].events)].type = "done"
  /\ subs[2].events = <<[type |-> "done", sid |-> 1]>>
  /\ subs[2].sent.tree = scans[1].tree
  /\ sseListeners = {}


\* The step in which the timer of scan sid publishes a snapshot, and the
\* step in which scan sid ends.
TickStep(sid) ==
  /\ requests' = requests
  /\ scans[sid].timer /\ scans[sid].dirty
  /\ scans'[sid].timer /\ ~scans'[sid].dirty

FinishStep(sid) == ~scans[sid].done /\ scans'[sid].done

\* C14: a request for the path of the active scan, that scan running and
\* having published a snapshot, is sent in the same step a progress event
\* with the snapshot and counters published last, and its listener is
\* registered; every registered listener is sent every event a scan
\* publishes afterwards: each tick's snapshot and counters, and the event
\* that ends the scan.
C14_AttachToRunningScan ==
  [][/\ \A p \in ScanPaths :
          (/\ RequestStep(p) /\ activeScan # 0
           /\ scans[activeScan].path = p
           /\ ~scans[activeScan].done
           /\ scans[activeScan].tree # NoNode) =>
            /\ NewStream.events = <<[type |-> "progress", sid |-> activeScan]>>
            /\ NewStream.sent.tree = scans[activeScan].tree
            /\ NewStream.sent.progress = scans[activeScan].progress
            /\ NewStream.open
            /\ Len(subs') \in sseListeners'
     /\ \A sid \in ScanIds : \A i \in sseListeners :
          /\ TickStep(sid) =>
                /\ subs'[i].sent = ProgressEvent(scans'[sid], sid)
                /\ subs'[i].events[Len(subs'[i].events)] =
                     [type |-> "progress", sid |-> sid]
                /\ i \in sseListeners'
          /\ FinishStep(sid) =>
                /\ subs'[i].sent = IF scans'[sid].error = ""
                                   THEN DoneEvent(scans'[sid], sid)
                                   ELSE ErrorEvent(scans'[sid], sid)
                /\ subs'[i].events[Len(subs'[i].events)].sid = sid
    ]_vars

\* A subscriber that attached to a running scan after its first snapshot,
\* was sent that snapshot at once, and then the later events up to done.
C14_Witness ==
  /\ Len(scans) = 1 /\ Len(subs) = 2
  /\ subs[2].scan = 1
  /\ subs[2].events = <<[type |-> "progress", sid |-> 1],
                        [type |-> "done", sid |-> 1]>>
  /\ subs[1].events = subs[2].events
  /\ subs[2].sent = DoneEvent(scans[1], 1)


\* The step in which the client of the stream i goes away.
DisconnectStep(i) == subs[i].open /\ ~subs[i].gone /\ subs'[i].gone

\* C15: a subscriber going away removes its own listener and nothing else:
\* the other listeners stay registered, no cancel signal is set, no field of
\* any scan record changes and no call of a walker is touched, so the scan
\* goes on as if the subscriber were still there.
C15_DisconnectOnlyUnsubscribes ==
  [][\A i \in 1..Len(subs) :
       DisconnectStep(i) =>
         /\ sseListeners' = sseListeners \ {i}
         /\ scans' = scans /\ activeScan' = activeScan
         /\ ops' = ops /\ active' = active /\ queue' = queue
         /\ \A j \in 1..Len(subs) \ {i} :
              subs'[j].open = subs[j].open /\ subs'[j].events = subs[j].events
    ]_vars

\* The only subscriber of a scan went away while the scan was running; the
\* scan ran to its end and recorded its final tree, and a later subscriber
\* for the path was sent done with it.
C15_Witness ==
  /\ Len(scans) = 1 /\ Len(subs) = 2
  /\ subs[1].gone /\ ~subs[2].gone
  /\ scans[1].done /\ scans[1].error = "" /\ ~scans[1].aborted
  /\ scans[1].tree = snapshot(scans[1].root)
  /\ subs[2].events = <<[type |-> "done", sid |-> 1]>>
  /\ subs[2].sent = DoneEvent(scans[1], 1)


\* The streams opened while a scan that has since been cancelled was the
\* active scan.
OfSuperseded == {i \in 1..Len(subs) :
                   subs[i].status = 200 /\ scans[subs[i].scan].aborted}

\* C16: once a scan is superseded, the streams that were opened on it are
\* written to no more: no event of the old scan and no event of the scan
\* that replaced it.
C16_SupersededSubscribersGetNothing ==
  [][\A i \in OfSuperseded :
       subs'[i].events = subs[i].events /\ subs'[i].sent = NoEvent]_vars


\* The events written to a stream by the step.
Written == {subs'[i].sent : i \in 1..Len(subs')} \ {NoEvent}

\* C17: a scan whose cancel signal is set is never reported: its record is
\* never marked done nor given an error, and no step writes a progress,
\* done or error event of it to any stream, while its calls are still
\* returning.
C17_CancelledScanIsSilent ==
  /\ [](\A sid \in ScanIds :
          scans[sid].aborted =>
            ~scans[sid].done /\ scans[sid].error = "")
  /\ [][\A sid \in ScanIds :
          scans'[sid].aborted => \A ev \in Written : ev.sid # sid]_vars

\* The scan of /a was cancelled with calls outstanding; they have all
\* returned since and its walker is over, and it is neither done nor
\* failed, while the scan that replaced it published a snapshot.
C17_Witness ==
  /\ Len(scans) = 2 /\ activeScan = 2
  /\ scans[1].path = <<"a">> /\ scans[1].aborted
  /\ ScanOps(1) = {} /\ ~scans[1].timer
  /\ ~scans[1].done /\ scans[1].error = ""
  /\ scans[2].tree # NoNode


\* C18: in what each stream was sent, only the last event can be done or
\* error, so there is at most one terminal event and nothing after it; a
\* stream that was sent one is closed and its listener is not registered.
C18_TerminalEventIsLast ==
  \A i \in 1..Len(subs) :
    LET evs == subs[i].events
    IN /\ \A k \in 1..Len(evs) - 1 : evs[k].type \notin Terminal
       /\ (evs # <<>> /\ evs[Len(evs)].type \in Terminal) =>
            ~subs[i].open /\ i \notin sseListeners

\* The first stream followed its scan to done; a scan of the other path was
\* started afterwards and has published a snapshot to its own subscriber,
\* which the first stream was not sent.
C18_Witness ==
  /\ Len(scans) = 2 /\ Len(subs) = 2
  /\ subs[1].events = <<[type |-> "progress", sid |-> 1],
                        [type |-> "done", sid |-> 1]>>
  /\ subs[2].events = <<[type |-> "progress", sid |-> 2]>>
  /\ subs[2].sent = ProgressEvent(scans[2], 2)
  /\ sseListeners = {2}


\* What the last tick of scan sid saw of the working tree: the snapshot
\* published last, or the bare root if nothing was published yet.
SeenAtLastTick(sid) ==
  IF scans[sid].tree = NoNode THEN snapshot(DirNode(scans[sid].path))
  ELSE scans[sid].tree

\* The scans whose timer is running and whose signal is unset.
Ticking == {sid \in ScanIds : scans[sid].timer /\ ~scans[sid].aborted}

\* A tick of a scan whose working tree changed since the last tick
\* broadcasts: the change is marked.
ChangeIsMarked ==
  \A sid \in Ticking :
    snapshot(scans[sid].root) # SeenAtLastTick(sid) => scans[sid].dirty

\* A tick broadcasts only a working tree that changed since the last tick,
\* with the snapshot and the counters of that moment.
BroadcastMeansChange ==
  \A sid \in ScanIds :
    TickStep(sid) =>
      /\ snapshot(scans[sid].root) # SeenAtLastTick(sid)
      /\ \A i \in sseListeners :
           /\ subs'[i].sent.type = "progress"
           /\ subs'[i].sent.tree = snapshot(scans[sid].root)
           /\ subs'[i].sent.progress = scans[sid].prog

\* C19 as stated: at a tick of a running scan whose signal is unset a
\* progress event is broadcast if and only if the working tree changed
\* since the previous tick, and it carries the snapshot and the counters of
\* that tick.
C19_TickBroadcastsIffTreeChanged ==
  []ChangeIsMarked /\ [][BroadcastMeansChange]_vars

\* The entries of a tree with their sizes.
NodeFacts(t) ==
  {[path |-> n.path, size |-> n.size, truncated |-> n.truncated] :
     n \in AllNodes(t)}

\* C19: a tick of a running scan whose signal is unset broadcasts a progress
\* event if and only if the walker marked a change since the previous tick;
\* the event goes to every registered listener with the snapshot of the
\* working tree and the counters as they are at that tick, which the scan
\* record stores too, and outside the start of a stream no progress event
\* is written without a marked change.  Every appended entry and every
\* stored size is marked, so the entries and sizes published last are those
\* of the working tree whenever no change is marked.
C19_TickBroadcastsIffMarked ==
  /\ [](\A sid \in Ticking :
          NodeFacts(snapshot(scans[sid].root))
            # NodeFacts(SeenAtLastTick(sid)) => scans[sid].dirty)
  /\ [][\A sid \in ScanIds :
          /\ TickStep(sid) =>
                /\ sid \in Ticking
                /\ scans'[sid].tree = snapshot(scans[sid].root)
                /\ scans'[sid].progress = scans[sid].prog
                /\ \A i \in sseListeners :
                     subs'[i].sent =
                       Event("progress", sid, snapshot(scans[sid].root),
                             scans[sid].prog, "")
          /\ (/\ requests' = requests
              /\ \E ev \in Written : ev.type = "progress" /\ ev.sid = sid) =>
                sid \in Ticking /\ scans[sid].dirty
     ]_vars

\* A tick has just sent the only subscriber the snapshot and the counters
\* of that moment, one of the two directories found being complete.
C19_Witness ==
  \E sid \in Ticking :
    /\ subs[1].sent = ProgressEvent(scans[sid], sid)
    /\ Len(subs[1].events) = 1
    /\ scans[sid].tree = snapshot(scans[sid].root)
    /\ scans[sid].progress.dirsCompleted = 1
    /\ scans[sid].progress.dirsFound = 2
    /\ ~scans[sid].dirty


\* What a walk of the directory p that follows no symbolic link finds, read
\* off the listings: the regular files beneath p with their stat sizes.
RECURSIVE FilesBeneath(_, _)
FilesBeneath(p, levels) ==
  IF levels = 0 THEN {}
  ELSE LET es == FsEntries(p)
           kept == {i \in 1..Len(es) : ~isSymbolicLink(es[i])}
       IN {[path |-> Append(p, es[i].name), type |-> "file",
            size |-> FsFileSize(Append(p, es[i].name))] :
             i \in {j \in kept : isFile(es[j])}}
          \cup UNION {FilesBeneath(Append(p, es[i].name), levels - 1) :
                        i \in {j \in kept : isDirectory(es[j])}}

\* ... and the directories, p included.
RECURSIVE DirsBeneath(_, _)
DirsBeneath(p, levels) ==
  IF levels = 0 THEN {p}
  ELSE LET es == FsEntries(p)
       IN {p} \cup UNION {DirsBeneath(Append(p, es[i].name), levels - 1) :
                            i \in {j \in 1..Len(es) :
                                     /\ ~isSymbolicLink(es[j])
                                     /\ isDirectory(es[j])}}

RECURSIVE StatTotal(_)
StatTotal(files) ==
  IF files = {} THEN 0
  ELSE LET f == CHOOSE x \in files : TRUE
       IN f.size + StatTotal(files \ {f})

\* The paths whose directories all lie less than MAX_DEPTH below them.
Shallow(p) == \A d \in DirsBeneath(p, MAX_DEPTH) : Len(d) - Len(p) < MAX_DEPTH

\* The files and directories a complete tree of p has to show, with sizes.
Expected(p) ==
  LET files == FilesBeneath(p, MAX_DEPTH)
  IN files \cup
     {[path |-> d, type |-> "directory",
       size |-> StatTotal({f \in files : IsPrefix(d, f.path)})] :
        d \in DirsBeneath(p, MAX_DEPTH)}

Shown(tree) ==
  {[path |-> n.path, type |-> n.type, size |-> n.size] : n \in AllNodes(tree)}

Returning(sid) ==
  {o \in ops : o.sid = sid /\ o.st = "inflight"
               /\ \A x \in ops' : OpId(x) # OpId(o)}

\* The step in which a call of scan sid fails for the first time.
FailureStep(sid) == ~scans[sid].failed /\ scans'[sid].failed

\* The paths of the files and directories a tree shows.
ShownPaths(tree) == {n.path : n \in AllNodes(tree)}
ExpectedPaths(p) == {n.path : n \in Expected(p)}

\* C21: a filesystem call of a streaming scan that fails neither cancels
\* the scan nor ends it: a listing that fails leaves its directory without
\* a children list and counts the directory in dirsCompleted, a stat that
\* fails leaves the working tree as it was; unless the scan is over with
\* that call no event is written, and a scan that ends after a failure ends
\* with a done event (the only error a scan reports is the exception of the
\* final snapshot) whose tree has every directory the size of its children
\* together, shows every directory found completed, and lacks only the file
\* whose stat failed, or only the entries of the directory whose listing
\* failed.
C21_FailuresAreSwallowed ==
  /\ [](\A sid \in ScanIds :
          (/\ scans[sid].failed /\ scans[sid].done
           /\ scans[sid].tree # NoNode) =>
             /\ scans[sid].error = ""
             /\ ~scans[sid].aborted
             /\ SizesSumUp(scans[sid].tree)
             /\ scans[sid].prog.dirsCompleted = scans[sid].prog.dirsFound
             /\ ShownPaths(scans[sid].tree) \subseteq
                  ExpectedPaths(scans[sid].path)
             /\ ExpectedPaths(scans[sid].path) \ ShownPaths(scans[sid].tree)
                  \in {{}, {<<"a", "d", "g">>},
                       {<<"a", "d", "g">>, <<"a", "d", "h">>}})
  /\ [][\A sid \in ScanIds :
          (FailureStep(sid) /\ scans'[sid].root # NoNode) =>
            \E o \in Returning(sid) :
              /\ Flaky(o.path)
              /\ scans'[sid].aborted = scans[sid].aborted
              /\ scans'[sid].error = ""
              /\ o.kind = "readdir" =>
                   /\ ~FindNode(scans'[sid].root, o.path).hasChildren
                   /\ FindNode(scans'[sid].root, o.path).children = <<>>
                   /\ scans'[sid].root = scans[sid].root
                   /\ scans'[sid].prog.dirsFound = scans[sid].prog.dirsFound
                   /\ scans'[sid].prog.dirsCompleted
                        > scans[sid].prog.dirsCompleted
              /\ o.kind = "stat" =>
                   /\ scans'[sid].root = scans[sid].root
                   /\ FindNode(scans'[sid].root, o.path) = NoNode
                   /\ scans'[sid].prog.dirsFound = scans[sid].prog.dirsFound
              /\ ~scans'[sid].done =>
                   /\ Written = {}
                   /\ scans'[sid].timer
              /\ scans'[sid].done =>
                   \A i \in sseListeners :
                     subs'[i].sent = DoneEvent(scans'[sid], sid)
     ]_vars

\* The listing of /a/d failed, and the scan of /a ended with a done event
\* whose tree shows d as a directory without entries next to f.
C21_Witness ==
  /\ Len(scans) = 1 /\ scans[1].path = <<"a">>
  /\ scans[1].failed /\ scans[1].done /\ scans[1].error = ""
  /\ subs[1].sent = DoneEvent(scans[1], 1)
  /\ scans[1].tree.size = 10
  /\ ~FindNode(scans[1].tree, <<"a", "d">>).hasChildren
  /\ scans[1].prog = [dirsFound |-> 2, dirsCompleted |-> 2]

\* ------------------------------------------------------ claims on SpecWalk
\* The du calls of scan sid that end in this step, and the step in which
\* the signal of scan sid is set.
DuEnding(sid) == {o \in Returning(sid) : o.kind = "du"}
CancelStep(sid) == ~scans[sid].aborted /\ scans'[sid].aborted

\* C22: the size estimator hands its walker a number whatever happens: 0
\* when the subprocess exits with an error, is killed at the timeout or
\* prints something that is not a size, 0 when the signal is set (it would
\* be 0 with the signal set at its start, and setting the signal while the
\* subprocess runs kills it), and the kilobytes printed times 1024
\* otherwise.  The walker goes on either way: the directory stays truncated
\* with that size, is counted in dirsCompleted, and the scan is neither
\* cancelled nor failed by it.
C22_EstimatorNeverThrows ==
  /\ [](\A o \in ops :
          o.kind = "du" =>
            /\ ~scans[o.sid].aborted
            /\ FindNode(scans[o.sid].root, o.path).truncated
            /\ \A run \in DuRuns(o.path) : fastDirSize(run, TRUE) = 0)
  /\ [][\A sid \in ScanIds : \A o \in DuEnding(sid) :
          LET node == FindNode(scans'[sid].root, o.path)
              run == scans'[sid].du
          IN /\ node.truncated
             /\ ~node.hasChildren
             /\ scans'[sid].error = ""
             /\ scans'[sid].prog.dirsCompleted > scans[sid].prog.dirsCompleted
             /\ scans'[sid].prog.dirsFound = scans[sid].prog.dirsFound
             /\ IF CancelStep(sid)
                THEN /\ node.size = 0
                     /\ \A x \in ops' : x.kind # "du"
                ELSE /\ scans'[sid].aborted = scans[sid].aborted
                     /\ run \in DuRuns(o.path)
                     /\ run.how \in {"exit 1", "timeout", "no output",
                                     "garbage"} => node.size = 0
                     /\ run.how = "exit 0" =>
                          node.size = FsDuKb(o.path) * 1024
     ]_vars

\* The du of the directory at depth MAX_DEPTH below /b printed something
\* that is not a size; the scan ended, showing the directory truncated with
\* size 0.
C22_Witness ==
  /\ scans # <<>> /\ scans[1].done /\ scans[1].du.how = "garbage"
  /\ \E n \in AllNodes(scans[1].tree) :
       /\ Len(n.path) = MAX_DEPTH + 1
       /\ n.truncated /\ n.size = 0
  /\ scans[1].tree.size = 0

\* ------------------------------------------------------ claims on SpecHeap
\* The roots of the trees somebody holds: the working tree and the
\* snapshots not dropped.
Roots == ({WorkRoot} \cup {held[i] : i \in 1..Len(held)}) \ {Dropped}

\* The trees an object of which is written in this step.
Touched == {r \in Roots : \E a \in Reach(heap, r) : heap'[a] # heap[a]}

\* C23: a snapshot is made of objects of its own: no object belongs to the
\* working tree and a snapshot, or to two snapshots, so a step writes to the
\* objects of one tree at most.  Taking a snapshot writes to no object of
\* the working tree or of an earlier snapshot and yields the tree the
\* recompute, sort and cap steps make of a copy; changing or dropping a
\* snapshot writes to no other tree.  The working tree keeps its children
\* in the order they were pushed, its expanded directories keep the size
\* stored in them, and it never holds an aggregate node.
C23_SnapshotSharesNothing ==
  /\ [](/\ \A r \in Roots, q \in Roots :
             r # q => Reach(heap, r) \cap Reach(heap, q) = {}
        /\ \A a \in Reach(heap, WorkRoot) :
             /\ heap[a].count = 0
             /\ heap[a].hasChildren => heap[a].size = 0
             /\ \A i \in 1..Len(heap[a].children) - 1 :
                  heap[a].children[i] < heap[a].children[i + 1])
  /\ [][/\ Cardinality(Touched) <= 1
        /\ \A a \in Reach(heap, WorkRoot) :
             /\ heap'[a].size = heap[a].size
             /\ SubSeq(heap'[a].children, 1, Len(heap[a].children))
                  = heap[a].children
             /\ inserts' = inserts => heap'[a] = heap[a]
        /\ Len(held') > Len(held) =>
             /\ Touched = {}
             /\ ValueOf(heap', held'[Len(held')])
                  = snapshot(ValueOf(heap, WorkRoot))
             /\ Reach(heap', held'[Len(held')]) \cap 1..Len(heap) = {}
        /\ held' # held => Touched = {}
     ]_vars

\* Two snapshots were taken of a working tree with a directory of more
\* entries than the cap allows; the consumer of the first overwrote it, and
\* the second, taken after a push, still shows the aggregate node and the
\* directory sizes.
C23_Witness ==
  /\ Len(held) = 2 /\ inserts = 1
  /\ Dropped \notin {held[1], held[2]}
  /\ heap[held[1]].size = Scribble /\ heap[held[1]].children = <<>>
  /\ heap[held[2]].size > 0
  /\ \E a \in Reach(heap, held[2]) : heap[a].count > 0
  /\ ValueOf(heap, held[2]) = snapshot(ValueOf(heap, WorkRoot))

\* ------------------------------------------------------- claims on SpecOne
\* What the listing of the directory p leaves of its entries when the stats
\* of the files in failing fail: the directories and the other files.
Remaining(p, failing) ==
  LET es == FsEntries(p)
  IN {Append(p, es[i].name) :
        i \in {j \in 1..Len(es) :
                 \/ es[j].type = "dir"
                 \/ es[j].type = "file"
                      /\ Append(p, es[j].name) \notin failing}}

\* C24: the one-shot walk resolves to a tree whatever calls fail: a
\* directory whose listing fails is in it as a directory of size 0 without
\* children, a file whose stat fails is not in it, every other entry of a
\* directory listed is (up to the cap on children), and a directory listed
\* has the size of the children it shows together.
C24_OneShotSwallowsFailures ==
  oneShot # NoCall =>
    LET t == oneShot.tree
        F == oneShot.failing
    IN /\ t.type = "directory"
       /\ \A n \in AllNodes(t) :
            LET depth == DepthIn(n, t.path)
                shown == {n.children[i].path :
                            i \in {j \in 1..Len(n.children) :
                                     ~IsAggregate(n.children[j])}}
                want == Remaining(n.path, F)
            IN IF n.type = "file"
               THEN IsAggregate(n) \/
                      (n.path \notin F /\ n.size = FsFileSize(n.path))
               ELSE IF depth >= oneShot.maxDepth
               THEN n.truncated /\ ~n.hasChildren
               ELSE IF n.path \in F
               THEN ~n.truncated /\ ~n.hasChildren /\ n.size = 0
               ELSE /\ n.hasChildren /\ ~n.truncated
                    /\ n.size = SumSizes(n.children)
                    /\ IF depth >= CHILD_LIMIT_DEPTH
                          /\ Cardinality(want) > MAX_CHILDREN
                       THEN shown \subseteq want
                            /\ Cardinality(shown) = MAX_CHILDREN
                       ELSE shown = want

\* A walk of /a during which the stat of /a/d/g failed: the tree shows d
\* with h alone, 5 bytes, next to f, 15 bytes in all.
C24_Witness ==
  /\ oneShot.tree.path = <<"a">> /\ oneShot.maxDepth = DEFAULT_MAX_DEPTH
  /\ oneShot.failing = {<<"a", "d", "g">>}
  /\ oneShot.tree.size = 15
  /\ Len(oneShot.tree.children) = 2
  /\ FindNode(oneShot.tree, <<"a", "d">>).size = 5
  /\ FindNode(oneShot.tree, <<"a", "d", "g">>) = NoNode

\* C25: in the tree the one-shot walk resolves to, every list of children
\* is in non-increasing order of size, the list of a directory cut to the
\* cap, with its aggregate node, included.
C25_OneShotChildrenSorted ==
  oneShot # NoCall => ChildrenSorted(oneShot.tree)

\* ------------------------------------------------------ claims on SpecView
RECURSIVE PathIn(_, _)
\* Some node of the tree has path p.
PathIn(node, p) ==
  \/ node.path = p
  \/ \E i \in 1..Len(node.children) : PathIn(node.children[i], p)

\* A step that is a call of removeNode, and the path it is called with.
RemoveStep == Len(removed') = Len(removed) + 1
Target == removed'[Len(removed')]

\* C26: removeNode(root, targetPath) returns null when root is the target.
\* Otherwise it writes to no object of the input tree and returns a tree,
\* under a new root object when the root has a children list, in which no
\* node has path targetPath and every node with a children list has the
\* size of its children together; when the input has that property too,
\* every ancestor of the node removed is smaller by exactly the size of the
\* node removed, and a targetPath that is not in the tree gives an equal
\* tree.
C26_RemoveNode ==
  [][RemoveStep =>
       LET old == ValueOf(heap, data)
           new == ValueOf(heap', data')
           gone == FindNode(old, Target)
       IN IF old.path = Target THEN data' = 0
          ELSE /\ data' # 0
               /\ SubSeq(heap', 1, Len(heap)) = heap
               /\ old.hasChildren => data' > Len(heap)
               /\ ~PathIn(new, Target)
               /\ SizesSumUp(new)
               /\ SizesSumUp(old) =>
                    IF PathIn(old, Target)
                    THEN \A k \in Len(old.path)..(Len(Target) - 1) :
                           FindNode(new, SubSeq(Target, 1, k)).size =
                             FindNode(old, SubSeq(Target, 1, k)).size
                               - gone.size
                    ELSE new = old]_vars

\* removeNode was called with the path of a file with a size, two
\* directories below the root: the tree held is now smaller by that size
\* than the tree sent, whose objects are as they were.
C26_Witness ==
  /\ removed = <<<<"v", "e2", "sub", "e1">>>>
  /\ data > 1
  /\ PathIn(ValueOf(heap, 1), <<"v", "e2", "sub", "e1">>)
  /\ FindNode(ValueOf(heap, 1), <<"v", "e2", "sub", "e1">>).size > 0
  /\ heap[data].size = heap[1].size
       - FindNode(ValueOf(heap, 1), <<"v", "e2", "sub", "e1">>).size
  /\ ~PathIn(ValueOf(heap, data), <<"v", "e2", "sub", "e1">>)

\* The nodes of a tree without children, or with an empty list of them.
LeafNodes(node) == {n \in AllNodes(node) : Len(n.children) = 0}

\* C27: the tree useTreemapLayout hands to the layout has at most MAX_RECTS
\* leaves, a leaf being a node without children or with an empty list of
\* children.
C27_AtMostMaxRectsLeaves ==
  pruned # NoNode => Cardinality(LeafNodes(pruned)) <= MAX_RECTS

\* A tree of more than MAX_RECTS leaves was pruned to MAX_RECTS leaves.
C27_Witness ==
  /\ pruned # NoNode
  /\ data # 0
  /\ Cardinality(LeafNodes(ValueOf(heap, data))) > MAX_RECTS
  /\ Cardinality(LeafNodes(pruned)) = MAX_RECTS

\* ------------------------------------------------------ claims on SpecWalk
\* The readdir and stat calls that a step issues: in flight after the step
\* and not before it.
Issued ==
  {o \in ops' : /\ o.st = "inflight"
                /\ o.kind \in {"readdir", "stat"}
                /\ \A x \in ops : OpId(x) = OpId(o) => x.st # "inflight"}

\* C28: no step issues a readdir or a stat of a scan whose signal was set
\* before the step, the calls that were waiting for a slot when the signal
\* was set included.
C28_NoIoAfterCancel ==
  [][\A o \in Issued : o.sid <= Len(scans) => ~scans[o.sid].aborted]_vars

\* The step that starts a scan whose signal is set already.
StartsCancelled == scans = <<>> /\ scans' # <<>> /\ scans'[1].aborted

\* The listings of scan sid that return in a step taken with its signal set.
CancelledListings(sid) ==
  {o \in Returning(sid) : o.kind = "readdir" /\ scans[sid].aborted}

\* The ancestors of p in scan sid below which no call is left after the
\* step: the directories whose own entries have all settled now, each of
\* which counts itself in dirsCompleted and marks the tree changed
\* (scanner.ts:263..265).
AncestorsOver(sid, p) ==
  {k \in Len(scans[sid].path)..(Len(p) - 1) :
     \A x \in ops' : x.sid = sid => SubSeq(x.path, 1, k) # SubSeq(p, 1, k)
                                     \/ Len(x.path) < k}

\* What C29 and its original wording have in common; own is what the fill
\* step itself adds to dirsCompleted.
CancelledFill(o, own) ==
  LET S == scans[o.sid]
      T == scans'[o.sid]
      over == Cardinality(AncestorsOver(o.sid, o.path))
  IN /\ T.root = S.root
     /\ ~FindNode(T.root, o.path).hasChildren
     /\ \A x \in ops' : \E y \in ops : OpId(y) = OpId(x)
     /\ T.prog.dirsFound = S.prog.dirsFound
     /\ T.prog.dirsCompleted = S.prog.dirsCompleted + over + own
     /\ T.dirty = (S.dirty \/ over > 0)

FillEnteredCancelled ==
  StartsCancelled =>
    /\ scans'[1].root = DirNode(scans'[1].path)
    /\ scans'[1].prog = [dirsFound |-> 1, dirsCompleted |-> 0]
    /\ ~scans'[1].dirty
    /\ scans'[1].tree = NoNode
    /\ ops' = {} /\ active' = active /\ queue' = queue

\* C29 as worded: a fill step entered with the signal set changes neither
\* its node nor the counters, marks nothing and makes no call; a fill step
\* whose listing returns with the signal set leaves its node without a
\* children list, creates no node, makes no call and adds nothing to
\* dirsFound or dirsCompleted.
C29_CancelledFillAddsNothing ==
  [][/\ FillEnteredCancelled
     /\ \A sid \in 1..Len(scans) : \A o \in CancelledListings(sid) :
          CancelledFill(o, 0)]_vars

\* C29, amended: the same, except that a listing that fails with the signal
\* set still counts its directory in dirsCompleted (the catch comes before
\* the check of the signal).
C29_CancelledFillAddsNoChild ==
  [][/\ FillEnteredCancelled
     /\ \A sid \in 1..Len(scans) : \A o \in CancelledListings(sid) :
          CancelledFill(o, IF scans'[sid].last.ok THEN 0 ELSE 1)]_vars

\* The listing of /a/d returned its entries after the signal was set: d is
\* still without a children list.
C29_Witness ==
  /\ scans # <<>>
  /\ scans[1].aborted
  /\ scans[1].last = Returned([path |-> <<"a", "d">>, kind |-> "readdir"],
                              TRUE)
  /\ FindNode(scans[1].root, <<"a", "d">>) # NoNode
  /\ ~FindNode(scans[1].root, <<"a", "d">>).hasChildren

\* The directories of a working tree that have been listed, and the
\* entries of their listings that are directories (a symbolic link to a
\* directory is an entry of type symlink).
ListedPaths(root) == {n.path : n \in {m \in AllNodes(root) : m.hasChildren}}
SubdirEntries(root) ==
  UNION {{<<p, i>> : i \in {j \in 1..Len(FsEntries(p)) :
                              FsEntries(p)[j].type = "dir"}} :
         p \in ListedPaths(root)}

\* C30: while a scan is not cancelled its dirsFound is 1 (the root) plus the
\* number of subdirectory entries, symbolic links left out, of the
\* directories listed so far; a directory's subdirectories are counted as
\* soon as its listing is in the tree, before any of them is listed.
C30_DirsFoundCountsListings ==
  \A sid \in 1..Len(scans) :
    (scans[sid].root # NoNode /\ ~scans[sid].aborted) =>
      scans[sid].prog.dirsFound =
        1 + Cardinality(SubdirEntries(scans[sid].root))

\* /a has been listed and /a/d has not: dirsFound is 2 already.
C30_Witness ==
  /\ scans # <<>>
  /\ ~scans[1].aborted
  /\ scans[1].root.path = <<"a">>
  /\ scans[1].root.hasChildren
  /\ FindNode(scans[1].root, <<"a", "d">>) # NoNode
  /\ ~FindNode(scans[1].root, <<"a", "d">>).hasChildren
  /\ \E o \in ops : o.path = <<"a", "d">> /\ o.kind = "readdir"
  /\ scans[1].prog.dirsFound = 2

RECURSIVE Grown(_, _)
\* new is old with nodes appended: every node of old is in new at the same
\* place in its parent's list, with the name, path and type it had.
Grown(old, new) ==
  /\ new.path = old.path /\ new.name = old.name /\ new.type = old.type
  /\ old.hasChildren => new.hasChildren
  /\ Len(old.children) <= Len(new.children)
  /\ \A i \in 1..Len(old.children) : Grown(old.children[i], new.children[i])

\* The nodes of new at paths old does not have.
FreshNodes(old, new) ==
  {n \in AllNodes(new) : n.path \notin ShownPaths(old)}

\* n stands for an entry of its parent's listing that is no symbolic link.
IsEntryNode(n) ==
  \E i \in 1..Len(FsEntries(Parent(n.path))) :
    /\ FsEntries(Parent(n.path))[i].name = n.name
    /\ FsEntries(Parent(n.path))[i].type # "symlink"

\* C31: the working tree of a scan only grows.  No step removes a node,
\* moves it or puts another in its place; the nodes a step adds are entries
\* of their parents' listings, at the end of the parents' lists, and come
\* without children of their own (a subdirectory is in its parent's list
\* before it has a list itself); no two nodes of the tree have the same
\* path, so no entry is appended twice.
C31_WorkingTreeOnlyGrows ==
  [][\A sid \in 1..Len(scans) :
       LET old == scans[sid].root
           new == scans'[sid].root
       IN /\ Grown(old, new)
          /\ \A n \in FreshNodes(old, new) :
               ~n.hasChildren /\ n.children = <<>> /\ IsEntryNode(n)
          /\ Cardinality(ShownPaths(new)) = SizeOfTree(new)]_vars

\* /a with the placeholder of d pushed first and f pushed after it, then g
\* and h under d: four appends in three steps at least.
C31_Witness ==
  /\ scans # <<>>
  /\ scans[1].root.path = <<"a">>
  /\ Len(scans[1].root.children) = 2
  /\ scans[1].root.children[1].path = <<"a", "d">>
  /\ scans[1].root.children[2].path = <<"a", "f">>
  /\ Len(scans[1].root.children[1].children) = 2

\* ---------------------------------------------------------------- SpecLive
\* The coordinator sharing the limiter with other callers, every call that
\* was made returning in the end: the subprocess of the size estimator is
\* killed at its timeout (scanner.ts:308..312), readdir and stat are taken to
\* return, and a caller that returns gives its slot back (scanner.ts:45..47).
\* The final snapshot is taken not to raise.
LiveReturn ==
  \E o \in ops : \E ok \in Outcomes(o.path) : OpReturn(o, ok, FALSE)

NextLive ==
  \/ \E p \in ScanPaths : Request(p)
  \/ \E sid \in 1..Len(scans) : Tick(sid)
  \/ LiveReturn
  \/ ForeignReturn

\* The calls made and not returned, and a step of NextLive in which one of
\* them returns: the steps of LiveReturn, which is enabled exactly when a
\* call is in flight.
CallsInFlight == {o \in ops : o.st = "inflight"}
CallReturns ==
  requests' = requests /\ \E o \in CallsInFlight : o \notin ops'

\* Weak fairness of ForeignReturn and of LiveReturn, the latter with its
\* ENABLED written out.
SpecLive ==
  /\ WalkInit
  /\ [][NextLive]_vars
  /\ WF_vars(ForeignReturn)
  /\ ([]<>(CallsInFlight = {}) \/ []<><<CallReturns>>_vars)

\* The done events of scan sid among the events stream i was sent.
DoneEventsOf(i, sid) ==
  {k \in 1..Len(subs[i].events) :
     subs[i].events[k] = [type |-> "done", sid |-> sid]}

Counted(p) == p.dirsCompleted <= p.dirsFound
NoLess(p, q) ==
  p.dirsFound <= q.dirsFound /\ p.dirsCompleted <= q.dirsCompleted

\* C33: in every state dirsCompleted is at most dirsFound, in the walker's
\* counters and in the copy handed to onProgress with each snapshot; no step
\* makes either counter smaller, and the counters handed to onProgress are
\* never smaller than those handed to it before; once a scan whose signal is
\* unset has ended, dirsCompleted equals dirsFound.
C33_CompletedAtMostFound ==
  /\ [](\A sid \in ScanIds :
          /\ Counted(scans[sid].prog) /\ Counted(scans[sid].progress)
          /\ (scans[sid].done /\ ~scans[sid].aborted) =>
               scans[sid].prog.dirsCompleted = scans[sid].prog.dirsFound)
  /\ [][\A sid \in ScanIds :
          /\ NoLess(scans[sid].prog, scans'[sid].prog)
          /\ ~scans'[sid].done =>
               NoLess(scans[sid].progress, scans'[sid].progress)]_vars

\* The scan of /b ended, its signal unset: the root, the directories of the
\* chain down to the depth limit and the truncated one are all found and
\* all completed.
C33_Witness ==
  /\ scans # <<>> /\ scans[1].path = <<"b">>
  /\ scans[1].done /\ ~scans[1].aborted
  /\ scans[1].prog.dirsFound = MAX_DEPTH + 1
  /\ scans[1].prog.dirsCompleted = MAX_DEPTH + 1

\* ------------------------------------------- claims on the cap and sizes
RECURSIVE DescendantTotal(_)
\* The sizes a working-tree node stands for: the stat sizes of the files and
\* the estimates of the truncated directories at or beneath it.
DescendantTotal(node) ==
  IF node.hasChildren /\ Len(node.children) > 0
  THEN LET each == [i \in 1..Len(node.children) |->
                      DescendantTotal(node.children[i])]
       IN SumOfCounts(each, Len(each))
  ELSE node.size

\* The copy of the working tree after the first recalcSizes of snapshot, and
\* after applyChildLimits.
FirstPass == recalcSizes(JsonClone(snapSrc))
Capped == applyChildLimits(FirstPass, 0)

PathSizes(t) == {<<n.path, n.size>> : n \in AllNodes(t)}

\* C34: every directory of a published snapshot has the size the first
\* recalcSizes gave it, which is the total of the file sizes and truncated
\* sizes beneath it in the working tree, whether or not the cap folded some
\* of its entries or of its descendants' entries into an aggregate; the
\* second recalcSizes changes the size of no node, only the order of
\* children.
C34_CapKeepsSizes ==
  snap # NoNode =>
    /\ \A n \in AllNodes(snap) :
         n.type = "directory" =>
           /\ n.size = FindNode(FirstPass, n.path).size
           /\ n.size = DescendantTotal(FindNode(snapSrc, n.path))
    /\ PathSizes(snap) = PathSizes(Capped)

\* A snapshot whose cap folded entries that weigh something, in a directory
\* below the root, and whose second recalcSizes moved the aggregate.
C34_Witness ==
  /\ snap # NoNode
  /\ snap # Capped
  /\ \E n \in AllNodes(snap) :
       /\ n.count > 0 /\ n.size > 0
       /\ FindNode(snap, Parent(n.path)).size
            > FindNode(snap, Parent(n.path)).children[1].size
       /\ Parent(n.path) # snap.path

\* C35: the snapshots published for one scan, at its ticks and at its end,
\* never shrink at the root: each has a root size at least that of the one
\* published before it, and none has a root size above what a snapshot of
\* the working tree would have at that moment, so the tree a scan ends with
\* weighs at least as much as every snapshot published during the scan.
C35_RootSizeNeverShrinks ==
  /\ [](\A sid \in ScanIds :
          (scans[sid].tree # NoNode /\ scans[sid].root # NoNode) =>
            scans[sid].tree.size <= snapshot(scans[sid].root).size)
  /\ [][\A sid \in ScanIds :
          /\ (scans[sid].tree # NoNode /\ scans'[sid].tree # NoNode) =>
               scans[sid].tree.size <= scans'[sid].tree.size
          /\ (scans[sid].root # NoNode /\ scans'[sid].root # NoNode) =>
               snapshot(scans[sid].root).size
                 <= snapshot(scans'[sid].root).size]_vars

\* A tick of the scan of /a published a snapshot of 10, the file f alone;
\* the working tree has received d/g (20) since, which the next snapshot
\* will show.
C35_Witness ==
  /\ scans # <<>> /\ scans[1].path = <<"a">>
  /\ ~scans[1].done /\ ~scans[1].aborted
  /\ scans[1].tree # NoNode /\ scans[1].tree.size = 10
  /\ snapshot(scans[1].root).size = 30

\* --------------------------------------------------- claims on rejections
\* The step answers a request with an error response.
RejectStep ==
  /\ Len(subs') = Len(subs) + 1
  /\ subs'[Len(subs')].status # 200

\* C36: a request that path validation rejects, whatever the cause, changes
\* nothing but the response it is given: no scan record is added, changed,
\* cancelled or replaced, the active scan stays the active scan, no call is
\* made or dropped and no slot taken, no listener is registered, no other
\* stream is written to or closed, and the response carries no event and is
\* closed.
C36_RejectedRequestChangesNothing ==
  [][RejectStep =>
       /\ scans' = scans /\ activeScan' = activeScan
       /\ ops' = ops /\ active' = active /\ queue' = queue
       /\ sseListeners' = sseListeners
       /\ \A i \in 1..Len(subs) :
            /\ subs'[i].events = subs[i].events
            /\ subs'[i].open = subs[i].open
            /\ subs'[i].sent = NoEvent
       /\ subs'[Len(subs')].events = <<>>
       /\ ~subs'[Len(subs')].open
       /\ subs'[Len(subs')].status \in Rejections]_vars

\* A request was rejected with 403 while the scan of /a was running with a
\* subscriber: the scan is still the active one, uncancelled, and its
\* subscriber still registered.
C36_Witness ==
  /\ Len(subs) = 2 /\ subs[2].status = 403
  /\ activeScan = 1 /\ scans[1].path = <<"a">>
  /\ ~scans[1].done /\ ~scans[1].aborted
  /\ ops # {}
  /\ sseListeners = {1}

\* ---------------------------------------------------------------- SpecPair
\* A streaming scan run to its end over each root of the fixture, the wide
\* directories included.  The stats of one directory are all in flight
\* together and return in any order (scanner.ts:230..262); of those orders
\* the listing order and its reverse are followed here, the direction being
\* chosen by the stat that returns first.
PairRoots == {<<"a">>, <<"b">>, <<"w">>, <<"u">>}

\* The position of the entry of call o in the listing of its directory.
EntryIndex(o) ==
  LET es == FsEntries(Parent(o.path))
  IN CHOOSE i \in 1..Len(es) : es[i].name = o.path[Len(o.path)]

\* The stats of the directory of o that have not returned.
StatsBeside(o) ==
  {x \in ops : x.kind = "stat" /\ Parent(x.path) = Parent(o.path)}

\* The name of the file pushed first into the directory of o, "" when no
\* file was pushed yet.
FirstFilePushed(o) ==
  LET cs == FindNode(scans[o.sid].root, Parent(o.path)).children
      files == {i \in 1..Len(cs) : cs[i].type = "file"}
  IN IF files = {} THEN ""
     ELSE cs[CHOOSE i \in files : \A j \in files : i <= j].name

InOrder(o) ==
  \/ o.kind # "stat"
  \/ LET es == FsEntries(Parent(o.path))
         firstFile == CHOOSE i \in 1..Len(es) :
                        isFile(es[i]) /\ \A j \in 1..i - 1 : ~isFile(es[j])
         lowest == \A x \in StatsBeside(o) : EntryIndex(o) <= EntryIndex(x)
         highest == \A x \in StatsBeside(o) : EntryIndex(x) <= EntryIndex(o)
     IN IF FirstFilePushed(o) = "" THEN lowest \/ highest
        ELSE IF FirstFilePushed(o) = es[firstFile].name THEN lowest
             ELSE highest

PairReturn ==
  \E o \in ops : InOrder(o) /\ \E run \in CallRuns(o) : WalkReturn(o, run)

NextPair ==
  \/ \E p \in PairRoots : WalkStart(p, FALSE)
  \/ PairReturn
  \/ WalkTick

SpecPair == Init /\ [][NextPair]_vars
\* ------------------------------------------- claims on the two walkers
Facts(t) ==
  {[path |-> n.path, size |-> n.size, type |-> n.type,
    truncated |-> n.truncated, count |-> n.count] : n \in AllNodes(t)}

ChildSizes(cs) == [i \in 1..Len(cs) |-> cs[i].size]

\* A streaming scan that ended, its signal unset and none of its calls
\* having failed, and the tree of the one-shot walk of the same path to the
\* same depth.
EndedClean(sid) ==
  /\ scans[sid].done /\ ~scans[sid].aborted /\ ~scans[sid].failed
  /\ scans[sid].tree # NoNode
OneShotOf(sid) == scanDirectory(scans[sid].path, MAX_DEPTH, 0, {})

RECURSIVE TiedCut(_, _)
\* Some directory the cap applies to, at or below dirPath, has an entry that
\* is kept and an entry that is folded of the same size.
TiedCut(dirPath, depth) ==
  /\ depth < MAX_DEPTH
  /\ LET es == FsEntries(dirPath)
         children == SortBySizeDesc(
           scanEntries(dirPath, MAX_DEPTH, depth, {}, es, Len(es)))
     IN \/ /\ depth >= CHILD_LIMIT_DEPTH /\ Len(children) > MAX_CHILDREN
           /\ children[MAX_CHILDREN].size = children[MAX_CHILDREN + 1].size
        \/ \E i \in 1..Len(es) :
             /\ ~isSymbolicLink(es[i]) /\ isDirectory(es[i])
             /\ TiedCut(Append(dirPath, es[i].name), depth + 1)

C38_WorkConserving ==
  /\ [](queue # <<>> => active = MAX_CONCURRENT)
  /\ [][queue # <<>> => active' = active]_vars

\* Every slot is taken and one caller waits, after a slot given back was
\* handed to the caller that waited before it.
C38_Witness ==
  /\ Len(queue) = 1
  /\ active = MAX_CONCURRENT
  /\ grants = MAX_CONCURRENT + 1
  /\ arrivals = grants + 1

\* ------------------------------------------- claims on the scan records
\* The step is the return of a call of scan sid.
ReturnOf(sid) ==
  requests' = requests /\ \E o \in ops : o.sid = sid /\ o \notin ops'

\* C39: what the active record stores is its own scan's: its snapshot is a
\* tree of the record's path, an error is stored only with done, and a
\* record done without error holds its final tree and no progress.  The
\* callbacks of a scan write to that scan's record only: a step in which a
\* call of a scan returns changes no other record, whether the scan is
\* superseded or active, and a step that is neither a request nor a return
\* changes no record but the active one.  A request that starts a scan adds
\* one record, for the requested path, with no snapshot, no progress, done
\* false and no error, and changes no other record but the one it replaces.
C39_RecordBelongsToItsScan ==
  /\ [](activeScan # 0 =>
          LET A == scans[activeScan]
          IN /\ A.tree # NoNode => A.tree.path = A.path
             /\ A.error # "" => A.done
             /\ (A.done /\ A.error = "") =>
                  A.tree # NoNode /\ A.progress = NullProgress)
  /\ [][/\ \A sid \in ScanIds, other \in ScanIds :
             (ReturnOf(sid) /\ other # sid) => scans'[other] = scans[other]
        /\ (requests' = requests /\ ops' = ops) =>
             \A sid \in ScanIds \ {activeScan} : scans'[sid] = scans[sid]
        /\ Len(scans') # Len(scans) =>
             /\ Len(scans') = Len(scans) + 1 /\ activeScan' = Len(scans')
             /\ scans'[activeScan'].path \in ScanPaths
             /\ scans'[activeScan'].tree = NoNode
             /\ scans'[activeScan'].progress = NullProgress
             /\ ~scans'[activeScan'].done
             /\ scans'[activeScan'].error = ""
             /\ \A sid \in ScanIds \ {activeScan} : scans'[sid] = scans[sid]
       ]_vars

\* The scan of /b was replaced by a scan of /a while calls of it were
\* outstanding; they have returned since, and the record of the scan of /a
\* holds the final tree of /a.
C39_Witness ==
  /\ Len(scans) = 2 /\ activeScan = 2
  /\ scans[1].path = <<"b">> /\ scans[1].aborted /\ ScanOps(1) = {}
  /\ scans[2].path = <<"a">> /\ scans[2].done /\ scans[2].error = ""
  /\ scans[2].tree.path = <<"a">> /\ scans[2].tree.size = 35

====
